---- MODULE Spec2Model ----
(***************************************************************************)
(* Model of dspy.sim.simulation_engine: SimulationEngine replays per-symbol *)
(* order-book snapshots, advances a virtual clock over them and matches     *)
(* latency-delayed market and limit orders against the current snapshot.    *)
(*                                                                          *)
(* Money values (prices, fees, PnL, wallet) are exact rationals [n, d] in   *)
(* lowest terms; the rounding of Python floats is not modelled.  Quantities *)
(* are integers.  Timestamps are integer nanoseconds.                       *)
(***************************************************************************)
EXTENDS Integers, Sequences, FiniteSets, TLC

(***************************************************************************)
(* Bounds of the model.                                                     *)
(***************************************************************************)
\* rows of one symbol's snapshot stream, at most
MaxLen == 3
\* largest snapshot timestamp
MaxTs == 3
\* orders created over one run, at most
MaxOrders == 1
\* largest absolute size of a position in the runs of add_trade alone
MaxSize == 2

(***************************************************************************)
(* Exact rational arithmetic.                                               *)
(***************************************************************************)
Abs(x) == IF x < 0 THEN -x ELSE x

Max(a, b) == IF a >= b THEN a ELSE b

RECURSIVE Gcd(_, _)
Gcd(a, b) == IF b = 0 THEN a ELSE Gcd(b, a % b)

Rat(n, d) ==
    LET g == Gcd(Abs(n), Abs(d))
        s == IF d < 0 THEN -1 ELSE 1
    IN  [n |-> s * (n \div g), d |-> s * (d \div g)]

RInt(i) == [n |-> i, d |-> 1]

Zero == RInt(0)

RNeg(a) == [n |-> -a.n, d |-> a.d]

RAdd(a, b) ==
    LET g == Gcd(a.d, b.d)
    IN  Rat(a.n * (b.d \div g) + b.n * (a.d \div g), (a.d \div g) * b.d)

RSub(a, b) == RAdd(a, RNeg(b))

RMul(a, b) ==
    LET g1 == Gcd(Abs(a.n), b.d)
        g2 == Gcd(Abs(b.n), a.d)
    IN  Rat((a.n \div g1) * (b.n \div g2), (a.d \div g2) * (b.d \div g1))

RDiv(a, b) == RMul(a, Rat(b.d, b.n))

RLt(a, b) == RSub(a, b).n < 0

RLe(a, b) == RSub(a, b).n <= 0

RMin(a, b) == IF RLe(a, b) THEN a ELSE b

RMax(a, b) == IF RLe(a, b) THEN b ELSE a

\* Python int(x) of a float x: truncation towards zero
IntTrunc(x) == IF x.n >= 0 THEN x.n \div x.d ELSE -((-x.n) \div x.d)

(***************************************************************************)
(* Configuration: LatencyConfig defaults and constructor arguments.         *)
(***************************************************************************)
Symbols == <<"BTC", "ETH">>

SymbolSet == {Symbols[i] : i \in 1..Len(Symbols)}

\* a symbol that was never passed to the constructor
UnknownSymbol == "XRP"

market_order_slippage_bps == 1

limit_order_fill_probability == Rat(95, 100)

\* LatencyConfig(): the defaults
LatencyConfig ==
    [market_order_slippage_bps    |-> market_order_slippage_bps,
     limit_order_fill_probability |-> limit_order_fill_probability]

maker_fee == Rat(1, 10000)

taker_fee == Rat(6, 10000)

initial_balance == Rat(1, 20)

(***************************************************************************)
(* What the data source delivers: per symbol a sequence of rows, in any     *)
(* order; the empty sequence stands for no data.  The top of book is a      *)
(* function of the symbol and the timestamp.                                *)
(***************************************************************************)
Books == << [bid |-> 99, ask |-> 101],
            [bid |-> 97, ask |-> 99],
            [bid |-> 101, ask |-> 103] >>

BookAt(sym, ts) ==
    Books[((ts + (IF sym = Symbols[1] THEN 2 ELSE 1)) % Len(Books)) + 1]

Row(sym, ts) == [ts |-> ts, bid |-> BookAt(sym, ts).bid, ask |-> BookAt(sym, ts).ask]

Rows(sym, tss) == [i \in 1..Len(tss) |-> Row(sym, tss[i])]

\* every delivery of at most MaxLen rows per symbol with ts in 1..MaxTs, the
\* rows of a symbol arriving latest first
AllLoads ==
    LET Tss == UNION { { f \in [1..n -> 1..MaxTs] :
                           \A i \in 1..(n - 1) : f[i] >= f[i + 1] } : n \in 0..MaxLen }
    IN  { [s \in SymbolSet |-> Rows(s, pick[s])] : pick \in [SymbolSet -> Tss] }

\* two deliveries for the runs with orders: interleaved timestamps with a
\* symbol that ends early, and a repeated timestamp with a symbol without data
Scenarios ==
    { [s \in SymbolSet |-> Rows(s, IF s = Symbols[1] THEN <<3, 1, 2>> ELSE <<1, 3>>)],
      [s \in SymbolSet |-> Rows(s, IF s = Symbols[1] THEN <<1, 1>> ELSE << >>)] }

\* a delivery in which a resting limit order meets an untouched tick before
\* a touched one: ETH asks are 103, 101, 99 at ts 1, 2, 3
FillScenarios ==
    { [s \in SymbolSet |-> Rows(s, IF s = Symbols[1] THEN <<3, 1>> ELSE <<3, 1, 2>>)] }

\* two deliveries for the round trips: a symbol whose book is the same in
\* three ticks in a row, next to a symbol whose book changes from tick to tick
RoundTripScenarios ==
    { [s \in SymbolSet |-> Rows(s, IF s = Symbols[1] THEN <<1, 1, 1>> ELSE <<2>>)],
      [s \in SymbolSet |-> Rows(s, IF s = Symbols[1] THEN <<3, 2, 1>> ELSE <<3, 3, 3>>)] }

\* the delivery of a data source that has nothing for any symbol
NoDataLoads == { [s \in SymbolSet |-> << >>] }

\* latency configurations at the ends of the ranges: no slippage or 1 bp,
\* limit fills never or always accepted
LatencyConfigs ==
    { [market_order_slippage_bps |-> bps, limit_order_fill_probability |-> p] :
          bps \in {0, market_order_slippage_bps}, p \in {RInt(0), RInt(1)} }

(***************************************************************************)
(* SimulationPosition                                                       *)
(***************************************************************************)
NewPosition ==
    [size |-> 0, avg_price |-> Zero, mark_price |-> Zero,
     unrealized_pnl |-> Zero, realized_pnl |-> Zero, leverage |-> 1]

update_mark_price(pos, price) ==
    IF pos.size # 0
    THEN [pos EXCEPT !.mark_price = price,
                     !.unrealized_pnl = RMul(RInt(pos.size), RSub(price, pos.avg_price))]
    ELSE [pos EXCEPT !.mark_price = price]

\* add_trade that realizes a close or flip on the traded quantity instead of
\* on the prior size
add_trade_on_qty(pos, qty, price, fee) ==
    IF pos.size = 0
    THEN [pos EXCEPT !.size = qty, !.avg_price = price]
    ELSE IF (pos.size > 0 /\ qty > 0) \/ (pos.size < 0 /\ qty < 0)
    THEN LET total_value == RAdd(RMul(RInt(pos.size), pos.avg_price),
                                 RMul(RInt(qty), price))
         IN  [pos EXCEPT !.size = pos.size + qty,
                         !.avg_price = RDiv(total_value, RInt(pos.size + qty))]
    ELSE LET realized_pnl == RSub(RMul(RInt(-qty), RSub(price, pos.avg_price)), fee)
             size == pos.size + qty
         IN  [pos EXCEPT !.realized_pnl = RAdd(pos.realized_pnl, realized_pnl),
                         !.size = size,
                         !.avg_price = IF Abs(qty) > Abs(pos.size)
                                       THEN price ELSE pos.avg_price]

add_trade(pos, qty, price, fee) ==
    IF pos.size = 0
    THEN [pos EXCEPT !.size = qty, !.avg_price = price]
    ELSE IF (pos.size > 0 /\ qty > 0) \/ (pos.size < 0 /\ qty < 0)
    THEN LET total_value == RAdd(RMul(RInt(pos.size), pos.avg_price),
                                 RMul(RInt(qty), price))
         IN  [pos EXCEPT !.size = pos.size + qty,
                         !.avg_price = RDiv(total_value, RInt(pos.size + qty))]
    ELSE IF Abs(qty) >= Abs(pos.size)
    THEN LET realized_pnl == RSub(RMul(RInt(pos.size), RSub(price, pos.avg_price)), fee)
             size == IF Abs(qty) > Abs(pos.size) THEN qty + pos.size ELSE 0
         IN  [pos EXCEPT !.realized_pnl = RAdd(pos.realized_pnl, realized_pnl),
                         !.size = size,
                         !.avg_price = IF size # 0 THEN price ELSE pos.avg_price]
    ELSE LET realized_pnl == RSub(RMul(RInt(-qty), RSub(price, pos.avg_price)), fee)
         IN  [pos EXCEPT !.realized_pnl = RAdd(pos.realized_pnl, realized_pnl),
                         !.size = pos.size + qty]

(***************************************************************************)
(* Latency model.  The random draws are inputs of the operations: a normal  *)
(* sample for the submission latency (given in ns, that is latency_ms *      *)
(* 1_000_000) and a uniform sample in [0, 1) per touched limit order.        *)
(***************************************************************************)
LatencySamples == { Rat(-1, 2), Rat(3, 2) }

UniformSamples == { Rat(0, 1), Rat(99, 100) }

simulate_latency(sample) == IntTrunc(RMax(Zero, sample))

\* apply_slippage with the concession in the trader's favour
apply_slippage_favourable(e, price, side) ==
    LET slippage_factor == Rat(e.latency_config.market_order_slippage_bps, 10000)
    IN  IF side = "Buy"
        THEN RMul(price, RSub(RInt(1), slippage_factor))
        ELSE RMul(price, RAdd(RInt(1), slippage_factor))

apply_slippage(e, price, side) ==
    LET slippage_factor == Rat(e.latency_config.market_order_slippage_bps, 10000)
    IN  IF side = "Buy"
        THEN RMul(price, RAdd(RInt(1), slippage_factor))
        ELSE RMul(price, RSub(RInt(1), slippage_factor))

\* should_fill_limit_order with a draw equal to the probability accepted
should_fill_limit_order_inclusive(e, sample) ==
    RLe(sample, e.latency_config.limit_order_fill_probability)

should_fill_limit_order(e, sample) ==
    RLt(sample, e.latency_config.limit_order_fill_probability)

(***************************************************************************)
(* The engine as a value: one record per SimulationEngine object.           *)
(***************************************************************************)
NewEngine ==
    [latency_config    |-> LatencyConfig,
     data_frames       |-> [s \in SymbolSet |-> << >>],
     current_indices   |-> [s \in SymbolSet |-> 0],
     current_time      |-> 0,
     current_data      |-> << >>,
     positions         |-> [s \in SymbolSet |-> NewPosition],
     orders            |-> << >>,
     pending_orders    |-> << >>,
     order_history     |-> << >>,
     execution_history |-> << >>,
     wallet_balance    |-> initial_balance,
     uuid_count        |-> 0]

\* df.sort('ts')
RECURSIVE InsertByTs(_, _)
InsertByTs(row, sorted) ==
    IF sorted = << >> THEN << row >>
    ELSE IF row.ts < Head(sorted).ts THEN << row >> \o sorted
    ELSE << Head(sorted) >> \o InsertByTs(row, Tail(sorted))

\* the delivery used as it arrives, without the sort
Unsorted(df) == df

RECURSIVE SortByTs(_)
SortByTs(df) ==
    IF df = << >> THEN << >>
    ELSE InsertByTs(df[Len(df)], SortByTs(SubSeq(df, 1, Len(df) - 1)))

load_all_data(e, loaded) ==
    [e EXCEPT !.data_frames = [s \in SymbolSet |-> SortByTs(loaded[s])],
              !.current_indices = [s \in SymbolSet |-> 0]]

Mid(row) == Rat(row.bid + row.ask, 2)

FeeRate(order) == IF order.order_type = "Limit" THEN maker_fee ELSE taker_fee

Fee(order, qty, price) == RMul(RMul(RInt(Abs(qty)), price), FeeRate(order))

Execution(e, order, qty, price) ==
    [order_id    |-> order.order_id,
     symbol      |-> order.symbol,
     side        |-> order.side,
     price       |-> price,
     qty         |-> qty,
     exec_type   |-> "Trade",
     exec_value  |-> RMul(RInt(Abs(qty)), price),
     exec_fee    |-> Fee(order, qty, price),
     fee_rate    |-> FeeRate(order),
     exec_time   |-> e.current_time,
     order_type  |-> order.order_type,
     order_price |-> order.price]

\* execute_order with the fee credited to the wallet instead of debited
execute_order_fee_credited(e, order, qty, price) ==
    LET fee == Fee(order, qty, price)
        signed_qty == IF order.side = "Buy" THEN qty ELSE -qty
        filled == [order EXCEPT !.status = "Filled", !.filled_qty = qty,
                                !.avg_price = price]
    IN  [e EXCEPT !.wallet_balance = RAdd(e.wallet_balance, fee),
                  !.positions[order.symbol] =
                      add_trade(e.positions[order.symbol], signed_qty, price, fee),
                  !.execution_history =
                      Append(e.execution_history, Execution(e, order, qty, price)),
                  !.order_history = Append(e.order_history, filled)]

\* execute_order that books a Sell with the sign of a Buy
execute_order_unsigned(e, order, qty, price) ==
    LET fee == Fee(order, qty, price)
        filled == [order EXCEPT !.status = "Filled", !.filled_qty = qty,
                                !.avg_price = price]
    IN  [e EXCEPT !.wallet_balance = RSub(e.wallet_balance, fee),
                  !.positions[order.symbol] =
                      add_trade(e.positions[order.symbol], qty, price, fee),
                  !.execution_history =
                      Append(e.execution_history, Execution(e, order, qty, price)),
                  !.order_history = Append(e.order_history, filled)]

\* execute_order that puts the filled order at the front of order_history
execute_order_prepending(e, order, qty, price) ==
    LET fee == Fee(order, qty, price)
        signed_qty == IF order.side = "Buy" THEN qty ELSE -qty
        filled == [order EXCEPT !.status = "Filled", !.filled_qty = qty,
                                !.avg_price = price]
    IN  [e EXCEPT !.wallet_balance = RSub(e.wallet_balance, fee),
                  !.positions[order.symbol] =
                      add_trade(e.positions[order.symbol], signed_qty, price, fee),
                  !.execution_history =
                      Append(e.execution_history, Execution(e, order, qty, price)),
                  !.order_history = << filled >> \o e.order_history]

\* execute_order on an engine whose symbols all share one position object
execute_order_shared_position(e, order, qty, price) ==
    LET fee == Fee(order, qty, price)
        signed_qty == IF order.side = "Buy" THEN qty ELSE -qty
        filled == [order EXCEPT !.status = "Filled", !.filled_qty = qty,
                                !.avg_price = price]
    IN  [e EXCEPT !.wallet_balance = RSub(e.wallet_balance, fee),
                  !.positions =
                      [s \in SymbolSet |->
                          add_trade(e.positions[s], signed_qty, price, fee)],
                  !.execution_history =
                      Append(e.execution_history, Execution(e, order, qty, price)),
                  !.order_history = Append(e.order_history, filled)]

execute_order(e, order, qty, price) ==
    LET fee == Fee(order, qty, price)
        signed_qty == IF order.side = "Buy" THEN qty ELSE -qty
        filled == [order EXCEPT !.status = "Filled", !.filled_qty = qty,
                                !.avg_price = price]
    IN  [e EXCEPT !.wallet_balance = RSub(e.wallet_balance, fee),
                  !.positions[order.symbol] =
                      add_trade(e.positions[order.symbol], signed_qty, price, fee),
                  !.execution_history =
                      Append(e.execution_history, Execution(e, order, qty, price)),
                  !.order_history = Append(e.order_history, filled)]

\* the fill price of an order against the snapshot of its symbol, when it
\* executes in this tick; draws[order_id] is its uniform sample
Fills(e, order, data, draws) ==
    IF order.order_type = "Market"
    THEN TRUE
    ELSE IF order.order_type = "Limit"
    THEN \/ /\ order.side = "Buy"
            /\ RLe(RInt(data.ask), order.price)
            /\ should_fill_limit_order(e, draws[order.order_id])
         \/ /\ order.side = "Sell"
            /\ RLe(order.price, RInt(data.bid))
            /\ should_fill_limit_order(e, draws[order.order_id])
    ELSE FALSE

\* FillPrice with a touched limit order filled at the worse of limit and touch
FillPrice_worse(e, order, data) ==
    IF order.order_type = "Market"
    THEN apply_slippage(e, RInt(IF order.side = "Buy" THEN data.ask ELSE data.bid),
                        order.side)
    ELSE IF order.side = "Buy"
    THEN RMax(order.price, RInt(data.ask))
    ELSE RMin(order.price, RInt(data.bid))

FillPrice(e, order, data) ==
    IF order.order_type = "Market"
    THEN apply_slippage(e, RInt(IF order.side = "Buy" THEN data.ask ELSE data.bid),
                        order.side)
    ELSE IF order.side = "Buy"
    THEN RMin(order.price, RInt(data.ask))
    ELSE RMax(order.price, RInt(data.bid))

RECURSIVE MatchOrders(_, _, _, _)
MatchOrders(e, todo, draws, executed_orders) ==
    IF todo = << >>
    THEN [eng |-> e, executed_orders |-> executed_orders]
    ELSE LET order == Head(todo)
         IN  IF order.symbol \in DOMAIN e.current_data
                /\ Fills(e, order, e.current_data[order.symbol], draws)
             THEN MatchOrders(
                      execute_order(e, order, order.qty,
                                    FillPrice(e, order, e.current_data[order.symbol])),
                      Tail(todo), draws, executed_orders \cup {order.order_id})
             ELSE MatchOrders(e, Tail(todo), draws, executed_orders)

\* process_orders that leaves the executed orders in Active
process_orders_keeping(e, draws) == MatchOrders(e, e.orders, draws, {}).eng

\* process_orders that also removes the orders it looked at without filling
process_orders_dropping(e, draws) ==
    LET r == MatchOrders(e, e.orders, draws, {})
        Kept(o) == o.symbol \notin DOMAIN e.current_data
    IN  [r.eng EXCEPT !.orders = SelectSeq(e.orders, Kept)]

process_orders(e, draws) ==
    LET r == MatchOrders(e, e.orders, draws, {})
        Kept(o) == o.order_id \notin r.executed_orders
    IN  [r.eng EXCEPT !.orders = SelectSeq(e.orders, Kept)]

\* process_pending_orders that leaves an order due exactly now in Pending
process_pending_orders_strict(e) ==
    LET Ready(o) == o.execution_time < e.current_time
        Waiting(o) == ~Ready(o)
    IN  [e EXCEPT !.orders = e.orders \o SelectSeq(e.pending_orders, Ready),
                  !.pending_orders = SelectSeq(e.pending_orders, Waiting)]

\* process_pending_orders that promotes the newest ready order first
process_pending_orders_newest_first(e) ==
    LET Ready(o) == o.execution_time <= e.current_time
        Waiting(o) == ~Ready(o)
        ready == SelectSeq(e.pending_orders, Ready)
    IN  [e EXCEPT !.orders = e.orders \o [i \in 1..Len(ready) |-> ready[Len(ready) + 1 - i]],
                  !.pending_orders = SelectSeq(e.pending_orders, Waiting)]

\* process_pending_orders that promotes every Pending order, due or not
process_pending_orders_at_once(e) ==
    [e EXCEPT !.orders = e.orders \o e.pending_orders,
              !.pending_orders = << >>]

process_pending_orders(e) ==
    LET Ready(o) == o.execution_time <= e.current_time
        Waiting(o) == ~Ready(o)
    IN  [e EXCEPT !.orders = e.orders \o SelectSeq(e.pending_orders, Ready),
                  !.pending_orders = SelectSeq(e.pending_orders, Waiting)]

\* update_state that matches the Active orders before it promotes
update_state_matching_first(e, timestamp, data, draws) ==
    LET e1 == [e EXCEPT !.current_time = timestamp,
                        !.current_data = data,
                        !.positions =
                            [s \in SymbolSet |->
                                IF s \in DOMAIN data
                                THEN update_mark_price(e.positions[s], Mid(data[s]))
                                ELSE e.positions[s]]]
    IN  process_pending_orders(process_orders(e1, draws))

\* update_state that marks the positions after the matching instead of first
update_state_marking_last(e, timestamp, data, draws) ==
    LET e1 == [e EXCEPT !.current_time = timestamp, !.current_data = data]
        e2 == process_orders(process_pending_orders(e1), draws)
    IN  [e2 EXCEPT !.positions =
                       [s \in SymbolSet |->
                           IF s \in DOMAIN data
                           THEN update_mark_price(e2.positions[s], Mid(data[s]))
                           ELSE e2.positions[s]]]

update_state(e, timestamp, data, draws) ==
    LET e1 == [e EXCEPT !.current_time = timestamp,
                        !.current_data = data,
                        !.positions =
                            [s \in SymbolSet |->
                                IF s \in DOMAIN data
                                THEN update_mark_price(e.positions[s], Mid(data[s]))
                                ELSE e.positions[s]]]
    IN  process_orders(process_pending_orders(e1), draws)

(***************************************************************************)
(* Time cursor.                                                             *)
(***************************************************************************)
get_next_data_point(e, symbol) ==
    IF e.data_frames[symbol] = << >>
    THEN [found |-> FALSE, eng |-> e]
    ELSE IF e.current_indices[symbol] >= Len(e.data_frames[symbol])
    THEN [found |-> FALSE, eng |-> e]
    ELSE [found |-> TRUE,
          row   |-> e.data_frames[symbol][e.current_indices[symbol] + 1],
          eng   |-> [e EXCEPT !.current_indices[symbol] = @ + 1]]

\* the loop of next() over self.symbols from the i-th symbol on
RECURSIVE CollectNext(_, _, _, _)
CollectNext(e, i, next_data, min_time) ==
    IF i > Len(Symbols)
    THEN [eng |-> e, next_data |-> next_data, min_time |-> min_time]
    ELSE LET r == get_next_data_point(e, Symbols[i])
         IN  IF r.found
             THEN CollectNext(r.eng, i + 1, next_data @@ (Symbols[i] :> r.row),
                              IF DOMAIN next_data = {} \/ r.row.ts < min_time
                              THEN r.row.ts ELSE min_time)
             ELSE CollectNext(r.eng, i + 1, next_data, min_time)

\* single_step that still promotes the ready Pending orders when no data is left
single_step_flushing(e, draws) ==
    LET c == CollectNext(e, 1, << >>, 0)
    IN  IF DOMAIN c.next_data = {}
        THEN [eng |-> process_pending_orders(e), ret |-> FALSE]
        ELSE [eng |-> update_state(c.eng, c.min_time, c.next_data, draws),
              ret |-> TRUE]

\* next() without a target time
single_step(e, draws) ==
    LET c == CollectNext(e, 1, << >>, 0)
    IN  IF DOMAIN c.next_data = {}
        THEN [eng |-> e, ret |-> FALSE]
        ELSE [eng |-> update_state(c.eng, c.min_time, c.next_data, draws),
              ret |-> TRUE]

\* the first index at or after idx whose row has ts >= target_time
\* (mask.arg_max() on the remaining slice); Len(df) when there is none
RECURSIVE FirstAtOrAfter(_, _, _)
FirstAtOrAfter(df, idx, target_time) ==
    IF idx >= Len(df) THEN Len(df)
    ELSE IF df[idx + 1].ts >= target_time THEN idx
    ELSE FirstAtOrAfter(df, idx + 1, target_time)

\* the loop of _jump_to_time that searches the whole frame instead of the
\* remaining slice
RECURSIVE AdvanceIndices_whole_frame(_, _, _, _)
AdvanceIndices_whole_frame(e, i, target_time, advanced_any) ==
    IF i > Len(Symbols)
    THEN [eng |-> e, advanced_any |-> advanced_any]
    ELSE LET symbol == Symbols[i]
             df == e.data_frames[symbol]
             current_idx == e.current_indices[symbol]
             match == FirstAtOrAfter(df, 0, target_time)
         IN  IF df = << >> \/ current_idx >= Len(df) \/ match >= Len(df)
             THEN AdvanceIndices_whole_frame(e, i + 1, target_time, advanced_any)
             ELSE AdvanceIndices_whole_frame([e EXCEPT !.current_indices[symbol] = match],
                                            i + 1, target_time, TRUE)

\* the loop of _jump_to_time over self.symbols from the i-th symbol on
RECURSIVE AdvanceIndices(_, _, _, _)
AdvanceIndices(e, i, target_time, advanced_any) ==
    IF i > Len(Symbols)
    THEN [eng |-> e, advanced_any |-> advanced_any]
    ELSE LET symbol == Symbols[i]
             df == e.data_frames[symbol]
             current_idx == e.current_indices[symbol]
             match == FirstAtOrAfter(df, current_idx, target_time)
         IN  IF df = << >> \/ current_idx >= Len(df) \/ match >= Len(df)
             THEN AdvanceIndices(e, i + 1, target_time, advanced_any)
             ELSE AdvanceIndices([e EXCEPT !.current_indices[symbol] = match],
                                 i + 1, target_time, TRUE)

\* _jump_to_time that runs the streams out when no row reaches the target
jump_to_time_draining(e, target_time, draws) ==
    LET a == AdvanceIndices(e, 1, target_time, FALSE)
    IN  IF ~a.advanced_any
        THEN [eng |-> [e EXCEPT !.current_indices =
                                    [s \in SymbolSet |-> Len(e.data_frames[s])]],
              ret |-> FALSE]
        ELSE single_step(a.eng, draws)

jump_to_time(e, target_time, draws) ==
    LET a == AdvanceIndices(e, 1, target_time, FALSE)
    IN  IF ~a.advanced_any
        THEN [eng |-> e, ret |-> FALSE]
        ELSE single_step(a.eng, draws)

\* seconds is given in ns (seconds * 1_000_000_000, a fraction):
\* wait_ns = int(seconds * 1_000_000_000)
wait_seconds(e, seconds, draws) ==
    LET wait_ns == IntTrunc(seconds)
        target_time == e.current_time + wait_ns
    IN  jump_to_time(e, target_time, draws)

\* wait(timeout): the same jump, with nothing returned
wait(e, timeout, draws) ==
    LET wait_ns == IntTrunc(timeout)
        target_time == e.current_time + wait_ns
    IN  jump_to_time(e, target_time, draws).eng

\* minutes is given on the same scale (minutes * 1_000_000_000)
wait_minutes(e, minutes, draws) == wait_seconds(e, RMul(minutes, RInt(60)), draws)

(***************************************************************************)
(* Market data methods.  A snapshot carries the best bid and the best ask;   *)
(* the amounts and the deeper levels of the book are not modelled.  raised  *)
(* tells that the call ended in ValueError("No data available ...").        *)
(***************************************************************************)
get_mid(e, symbol) ==
    IF symbol \notin DOMAIN e.current_data
    THEN [raised |-> TRUE]
    ELSE LET data == e.current_data[symbol]
         IN  [raised |-> FALSE, mid |-> Rat(data.bid + data.ask, 2)]

get_orderbook(e, symbol) ==
    IF symbol \notin DOMAIN e.current_data
    THEN [raised |-> TRUE]
    ELSE LET data == e.current_data[symbol]
         IN  [raised |-> FALSE, b |-> << data.bid >>, a |-> << data.ask >>,
              ts |-> data.ts, cts |-> data.ts]

get_ask(e, symbol) ==
    LET orderbook == get_orderbook(e, symbol)
    IN  IF orderbook.raised THEN [raised |-> TRUE]
        ELSE [raised |-> FALSE, price |-> orderbook.a[1]]

get_bid(e, symbol) ==
    LET orderbook == get_orderbook(e, symbol)
    IN  IF orderbook.raised THEN [raised |-> TRUE]
        ELSE [raised |-> FALSE, price |-> orderbook.b[1]]

(***************************************************************************)
(* Trading methods.                                                         *)
(***************************************************************************)
\* price = NoPrice stands for price=None
NoPrice == [n |-> 0, d |-> 0]

\* place_order that puts the new order straight into Active
place_order_active(e, symbol, qty, price, type, sample) ==
    IF symbol \notin SymbolSet
    THEN [eng |-> e, raised |-> TRUE, sampled |-> FALSE,
          order_id |-> 0, ret_code |-> -1, time |-> -1]
    ELSE LET order_id == e.uuid_count + 1
             order == [order_id        |-> order_id,
                       symbol          |-> symbol,
                       side            |-> IF qty > 0 THEN "Buy" ELSE "Sell",
                       qty             |-> Abs(qty),
                       price           |-> IF price = NoPrice THEN Zero ELSE price,
                       order_type      |-> type,
                       timestamp       |-> e.current_time,
                       submission_time |-> e.current_time,
                       execution_time  |-> e.current_time + simulate_latency(sample),
                       status          |-> "New",
                       filled_qty      |-> 0,
                       avg_price       |-> Zero]
         IN  [eng |-> [e EXCEPT !.uuid_count = order_id,
                                !.orders = Append(e.orders, order)],
              raised |-> FALSE, sampled |-> TRUE, order_id |-> order_id,
              ret_code |-> 0, time |-> e.current_time]

\* place_order without the check of the symbol
place_order_unchecked(e, symbol, qty, price, type, sample) ==
    LET order_id == e.uuid_count + 1
        order_latency == simulate_latency(sample)
        order == [order_id        |-> order_id,
                  symbol          |-> symbol,
                  side            |-> IF qty > 0 THEN "Buy" ELSE "Sell",
                  qty             |-> Abs(qty),
                  price           |-> IF price = NoPrice THEN Zero ELSE price,
                  order_type      |-> type,
                  timestamp       |-> e.current_time,
                  submission_time |-> e.current_time,
                  execution_time  |-> e.current_time + order_latency,
                  status          |-> "New",
                  filled_qty      |-> 0,
                  avg_price       |-> Zero]
    IN  [eng |-> [e EXCEPT !.uuid_count = order_id,
                           !.pending_orders = Append(e.pending_orders, order)],
         raised |-> FALSE, sampled |-> TRUE, order_id |-> order_id, ret_code |-> 0,
         time |-> e.current_time]

place_order(e, symbol, qty, price, type, sample) ==
    IF symbol \notin SymbolSet
    THEN [eng |-> e, raised |-> TRUE, sampled |-> FALSE,
          order_id |-> 0, ret_code |-> -1, time |-> -1]
    ELSE LET order_id == e.uuid_count + 1
             order_latency == simulate_latency(sample)
             order == [order_id        |-> order_id,
                       symbol          |-> symbol,
                       side            |-> IF qty > 0 THEN "Buy" ELSE "Sell",
                       qty             |-> Abs(qty),
                       price           |-> IF price = NoPrice THEN Zero ELSE price,
                       order_type      |-> type,
                       timestamp       |-> e.current_time,
                       submission_time |-> e.current_time,
                       execution_time  |-> e.current_time + order_latency,
                       status          |-> "New",
                       filled_qty      |-> 0,
                       avg_price       |-> Zero]
         IN  [eng |-> [e EXCEPT !.uuid_count = order_id,
                                !.pending_orders = Append(e.pending_orders, order)],
              raised |-> FALSE, sampled |-> TRUE, order_id |-> order_id, ret_code |-> 0,
              time |-> e.current_time]

\* uuid.uuid4(): the order id is drawn from the entropy of the operating
\* system, which no seed sets.  The engine record names an order by the count
\* of the ids issued so far; Uuid4Values are values the string itself can
\* take in one call.
Uuid4Values == { "uuid-a", "uuid-b" }

\* what seeding the generators (np.random.seed, random.seed) fixes: the
\* normal sample of the next _simulate_latency
Seeds == { 1, 2 }

SeededLatency(seed) == IF seed = 1 THEN Rat(-1, 2) ELSE Rat(3, 2)

\* the response of place_order and the order it queued, with the id string
\* uuid drawn in the call
place_order_response(e, symbol, qty, price, type, seed, uuid) ==
    LET r == place_order(e, symbol, qty, price, type, SeededLatency(seed))
    IN  IF r.raised
        THEN [raised |-> TRUE]
        ELSE [raised   |-> FALSE,
              order_id |-> uuid,
              ret_code |-> r.ret_code,
              time     |-> r.time,
              order    |-> [r.eng.pending_orders[Len(r.eng.pending_orders)]
                               EXCEPT !.order_id = uuid]]

\* cancel_order that reports success whether or not the id was Active
cancel_order_always_ok(e, order_id) ==
    LET Other(o) == o.order_id # order_id
    IN  [eng |-> [e EXCEPT !.orders = SelectSeq(e.orders, Other)], ret |-> 0]

cancel_order(e, order_id) ==
    LET Other(o) == o.order_id # order_id
    IN  IF \E i \in 1..Len(e.orders) : e.orders[i].order_id = order_id
        THEN [eng |-> [e EXCEPT !.orders = SelectSeq(e.orders, Other)], ret |-> 0]
        ELSE [eng |-> e, ret |-> 1]

\* cancel_all_orders that also drops the Pending orders of the symbol
cancel_all_orders_pending_too(e, symbol) ==
    LET Other(o) == o.symbol # symbol
    IN  [eng |-> [e EXCEPT !.orders = SelectSeq(e.orders, Other),
                           !.pending_orders = SelectSeq(e.pending_orders, Other)],
         ret |-> 0]

cancel_all_orders(e, symbol) ==
    LET Other(o) == o.symbol # symbol
    IN  [eng |-> [e EXCEPT !.orders = SelectSeq(e.orders, Other)], ret |-> 0]

\* ret_code None is written NoneCode
NoneCode == -1

\* the loop of close_positions over its argument from the i-th symbol on;
\* samples[symbol] is the latency sample of the order placed for it
RECURSIVE ClosePositionsFrom(_, _, _, _, _)
ClosePositionsFrom(e, symbols, i, samples, responses) ==
    IF i > Len(symbols)
    THEN [eng |-> e, responses |-> responses]
    ELSE LET symbol == symbols[i]
         IN  IF symbol \in SymbolSet /\ e.positions[symbol].size # 0
             THEN LET r == place_order(e, symbol, -e.positions[symbol].size,
                                       NoPrice, "Market", samples[symbol])
                  IN  ClosePositionsFrom(r.eng, symbols, i + 1, samples,
                                         responses @@ (symbol :> r.ret_code))
             ELSE ClosePositionsFrom(e, symbols, i + 1, samples,
                                     responses @@ (symbol :> NoneCode))

\* close_positions that places its orders on the side of the position
RECURSIVE AddToPositionsFrom(_, _, _, _, _)
AddToPositionsFrom(e, symbols, i, samples, responses) ==
    IF i > Len(symbols)
    THEN [eng |-> e, responses |-> responses]
    ELSE LET symbol == symbols[i]
         IN  IF symbol \in SymbolSet /\ e.positions[symbol].size # 0
             THEN LET r == place_order(e, symbol, e.positions[symbol].size,
                                       NoPrice, "Market", samples[symbol])
                  IN  AddToPositionsFrom(r.eng, symbols, i + 1, samples,
                                         responses @@ (symbol :> r.ret_code))
             ELSE AddToPositionsFrom(e, symbols, i + 1, samples,
                                     responses @@ (symbol :> NoneCode))

close_positions_same_side(e, symbols, samples) ==
    AddToPositionsFrom(e, symbols, 1, samples, << >>)

\* close_positions that places an order of one lot whatever the size
RECURSIVE CloseOneLotFrom(_, _, _, _, _)
CloseOneLotFrom(e, symbols, i, samples, responses) ==
    IF i > Len(symbols)
    THEN [eng |-> e, responses |-> responses]
    ELSE LET symbol == symbols[i]
         IN  IF symbol \in SymbolSet /\ e.positions[symbol].size # 0
             THEN LET r == place_order(e, symbol,
                                       IF e.positions[symbol].size > 0 THEN -1 ELSE 1,
                                       NoPrice, "Market", samples[symbol])
                  IN  CloseOneLotFrom(r.eng, symbols, i + 1, samples,
                                      responses @@ (symbol :> r.ret_code))
             ELSE CloseOneLotFrom(e, symbols, i + 1, samples,
                                  responses @@ (symbol :> NoneCode))

close_positions_one_lot(e, symbols, samples) ==
    CloseOneLotFrom(e, symbols, 1, samples, << >>)

close_positions(e, symbols, samples) ==
    ClosePositionsFrom(e, symbols, 1, samples, << >>)

(***************************************************************************)
(* History methods.  An argument left at None is written NoSymbol for the   *)
(* symbol and NoTime for a time: the code tests them for truth, which "" and *)
(* 0 fail as None does.                                                      *)
(***************************************************************************)
NoSymbol == ""

NoTime == 0

\* seq[-limit:]
TailSlice(seq, limit) ==
    LET start == IF limit > 0 THEN Max(Len(seq) - limit, 0)
                 ELSE IF -limit < Len(seq) THEN -limit ELSE Len(seq)
    IN  SubSeq(seq, start + 1, Len(seq))

get_trade_history(e, symbol, limit, start_time, end_time) ==
    LET Kept(exec) ==
            /\ ~(symbol # NoSymbol /\ exec.symbol # symbol)
            /\ ~(start_time # NoTime /\ exec.exec_time < start_time)
            /\ ~(end_time # NoTime /\ exec.exec_time > end_time)
    IN  SelectSeq(TailSlice(e.execution_history, limit), Kept)

\* the entries of execution_history that get_trade_history returns, as their
\* positions in the list: trades.append(exec) puts the stored dict itself
\* into the result
TradeHistoryRefs(e, symbol, limit, start_time, end_time) ==
    LET tail == TailSlice(e.execution_history, limit)
        first == Len(e.execution_history) - Len(tail)
        Kept(i) ==
            LET exec == e.execution_history[i]
            IN  /\ ~(symbol # NoSymbol /\ exec.symbol # symbol)
                /\ ~(start_time # NoTime /\ exec.exec_time < start_time)
                /\ ~(end_time # NoTime /\ exec.exec_time > end_time)
    IN  SelectSeq([k \in 1..Len(tail) |-> first + k], Kept)

\* the caller's trades[k]["qty"] = value on the list trades that
\* get_trade_history returned: the dict written to is the stored one
SetReturnedTrade(e, symbol, limit, start_time, end_time, k, value) ==
    LET refs == TradeHistoryRefs(e, symbol, limit, start_time, end_time)
    IN  [e EXCEPT !.execution_history[refs[k]].qty = value]

FilledOrderRecord(order) ==
    [order_id       |-> order.order_id,
     symbol         |-> order.symbol,
     side           |-> order.side,
     order_type     |-> order.order_type,
     price          |-> order.price,
     qty            |-> order.qty,
     avg_price      |-> order.avg_price,
     cum_exec_qty   |-> order.filled_qty,
     cum_exec_value |-> RMul(RInt(order.filled_qty), order.avg_price),
     order_status   |-> order.status,
     created_time   |-> order.timestamp,
     updated_time   |-> order.timestamp]

get_filled_orders(e, symbol, limit) ==
    LET Kept(order) ==
            /\ ~(symbol # NoSymbol /\ order.symbol # symbol)
            /\ order.status = "Filled"
        kept == SelectSeq(TailSlice(e.order_history, limit), Kept)
    IN  [i \in 1..Len(kept) |-> FilledOrderRecord(kept[i])]

TradeRecord(exec) ==
    [ts    |-> exec.exec_time,
     price |-> exec.price,
     qty   |-> exec.qty,
     side  |-> IF exec.side = "Buy" THEN 1 ELSE -1]

get_trades(e, symbol, limit) ==
    LET Kept(exec) == exec.symbol = symbol
        kept == SelectSeq(TailSlice(e.execution_history, limit), Kept)
    IN  [i \in 1..Len(kept) |-> TradeRecord(kept[i])]

PnlRecord(e, symbol) ==
    [symbol         |-> symbol,
     closed_pnl     |-> e.positions[symbol].realized_pnl,
     unrealized_pnl |-> e.positions[symbol].unrealized_pnl,
     created_time   |-> e.current_time,
     updated_time   |-> e.current_time]

get_pnl(e, symbol, limit) ==
    LET Kept(symbol_name) == ~(symbol # NoSymbol /\ symbol_name # symbol)
        kept == SelectSeq(Symbols, Kept)
    IN  TailSlice([i \in 1..Len(kept) |-> PnlRecord(e, kept[i])], limit)

(***************************************************************************)
(* Position methods.                                                        *)
(***************************************************************************)
PositionRecord(pos) ==
    [size             |-> pos.size,
     aep              |-> pos.avg_price,
     mark_price       |-> pos.mark_price,
     value            |-> RMul(RInt(Abs(pos.size)), pos.mark_price),
     leverage         |-> pos.leverage,
     position_balance |-> RMul(RInt(Abs(pos.size)), pos.avg_price),
     unrealized_pnl   |-> pos.unrealized_pnl,
     realized_pnl     |-> pos.realized_pnl]

\* raised tells that the call ended in KeyError
get_positions(e, symbols) ==
    LET known == { symbols[i] : i \in 1..Len(symbols) } \cap SymbolSet
        records == [symbol \in known |-> PositionRecord(e.positions[symbol])]
    IN  IF Len(symbols) = 1
        THEN IF symbols[1] \in known
             THEN [raised |-> FALSE, positions |-> records[symbols[1]]]
             ELSE [raised |-> TRUE]
        ELSE [raised |-> FALSE, positions |-> records]

\* what a write to a record returned by get_filled_orders, get_pnl or
\* get_positions does to the engine: these records are dicts of numbers and
\* strings built by the call, no object of the engine is among them
SetReturnedCopy(e) == e

(***************************************************************************)
(* State: the fields of the one SimulationEngine object, and three history  *)
(* variables about the strategy's calls: last_placed is the id of the order *)
(* the last call created when that call was place_order (0 otherwise),      *)
(* cancel_requested the ids given to cancel_order right after their         *)
(* place_order, before any other call, and raised, kept in the runs of      *)
(* SpecPlace only, tells that the last call ended in an exception.          *)
(***************************************************************************)
VARIABLES latency_config, data_frames, current_indices, current_time,
          current_data, positions, orders, pending_orders, order_history, execution_history,
          wallet_balance, uuid_count, last_placed, cancel_requested, raised

vars == << latency_config, data_frames, current_indices, current_time,
           current_data, positions, orders, pending_orders, order_history, execution_history,
           wallet_balance, uuid_count, last_placed, cancel_requested, raised >>

Engine ==
    [latency_config    |-> latency_config,
     data_frames       |-> data_frames,
     current_indices   |-> current_indices,
     current_time      |-> current_time,
     current_data      |-> current_data,
     positions         |-> positions,
     orders            |-> orders,
     pending_orders    |-> pending_orders,
     order_history     |-> order_history,
     execution_history |-> execution_history,
     wallet_balance    |-> wallet_balance,
     uuid_count        |-> uuid_count]

\* the engine after the call is e
Becomes(e) ==
    /\ latency_config' = e.latency_config
    /\ data_frames' = e.data_frames
    /\ current_indices' = e.current_indices
    /\ current_time' = e.current_time
    /\ current_data' = e.current_data
    /\ positions' = e.positions
    /\ orders' = e.orders
    /\ pending_orders' = e.pending_orders
    /\ order_history' = e.order_history
    /\ execution_history' = e.execution_history
    /\ wallet_balance' = e.wallet_balance
    /\ uuid_count' = e.uuid_count

\* a call other than place_order and cancel_order was made
OtherCall == last_placed' = 0 /\ UNCHANGED << cancel_requested, raised >>

ActiveIds(e) == { e.orders[i].order_id : i \in 1..Len(e.orders) }

PendingIds(e) == { e.pending_orders[i].order_id : i \in 1..Len(e.pending_orders) }

FilledIds(e) == { e.order_history[i].order_id : i \in 1..Len(e.order_history) }

OpenLimitIds(e) ==
    { o.order_id : o \in { e.orders[i] : i \in 1..Len(e.orders) }
                          \cup { e.pending_orders[i] : i \in 1..Len(e.pending_orders) } }
        \ { o.order_id : o \in { x \in { e.orders[i] : i \in 1..Len(e.orders) }
                                         \cup { e.pending_orders[i] : i \in 1..Len(e.pending_orders) } :
                                   x.order_type # "Limit" } }

\* uniform samples for the limit orders a tick can touch
DrawsOf(e) == [OpenLimitIds(e) -> UniformSamples]

Draws == DrawsOf(Engine)

\* __init__ with latency_config=config: load the data, then advance to the
\* first data point
ConstructedWith(loaded, config) ==
    LET new == [NewEngine EXCEPT !.latency_config = config]
        e == single_step(load_all_data(new, loaded), << >>).eng
    IN     /\ latency_config = e.latency_config
           /\ data_frames = e.data_frames
           /\ current_indices = e.current_indices
           /\ current_time = e.current_time
           /\ current_data = e.current_data
           /\ positions = e.positions
           /\ orders = e.orders
           /\ pending_orders = e.pending_orders
           /\ order_history = e.order_history
           /\ execution_history = e.execution_history
           /\ wallet_balance = e.wallet_balance
           /\ uuid_count = e.uuid_count
           /\ last_placed = 0
           /\ cancel_requested = {}
           /\ raised = FALSE

\* __init__ with the default latency_config
Constructed(loaded) == ConstructedWith(loaded, LatencyConfig)

(***************************************************************************)
(* Operations of the exchange facade.                                       *)
(***************************************************************************)
TargetTimes == 0..(MaxTs + 1)

\* seconds to wait, in ns
WaitInputs == { Rat(-1, 1), Rat(3, 2), Rat(2, 1) }

\* minutes to wait, on the same scale: 60 times these are -1, 3/2 and 2 ns
MinuteInputs == { Rat(-1, 60), Rat(1, 40), Rat(1, 30) }

DoNext ==
    \E draws \in Draws :
        LET r == single_step(Engine, draws)
        IN  Becomes(r.eng) /\ OtherCall

DoNextTarget ==
    \E target_time \in TargetTimes, draws \in Draws :
        LET r == jump_to_time(Engine, target_time, draws)
        IN  Becomes(r.eng) /\ OtherCall

DoWait ==
    \E timeout \in WaitInputs, draws \in Draws :
        Becomes(wait(Engine, timeout, draws)) /\ OtherCall

DoWaitSeconds ==
    \E seconds \in WaitInputs, draws \in Draws :
        LET r == wait_seconds(Engine, seconds, draws)
        IN  Becomes(r.eng) /\ OtherCall

DoWaitMinutes ==
    \E minutes \in MinuteInputs, draws \in Draws :
        LET r == wait_minutes(Engine, minutes, draws)
        IN  Becomes(r.eng) /\ OtherCall

OrderQtys == {-1, 1}

LimitPrices == { RInt(100) }

OrderInputs ==
    { [qty |-> q, price |-> NoPrice, type |-> "Market"] : q \in OrderQtys }
        \cup { [qty |-> q, price |-> p, type |-> "Limit"] :
                  q \in OrderQtys, p \in LimitPrices }

DoPlaceOrder ==
    \E symbol \in SymbolSet \cup {UnknownSymbol}, o \in OrderInputs,
       sample \in LatencySamples :
        LET r == place_order(Engine, symbol, o.qty, o.price, o.type, sample)
        IN  /\ r.eng.uuid_count <= MaxOrders
            /\ Becomes(r.eng)
            /\ last_placed' = r.order_id
            /\ UNCHANGED << cancel_requested, raised >>

DoCancelOrder ==
    \E order_id \in 1..MaxOrders :
        LET r == cancel_order(Engine, order_id)
        IN  /\ Becomes(r.eng)
            /\ cancel_requested' = IF order_id = last_placed
                                   THEN cancel_requested \cup {order_id}
                                   ELSE cancel_requested
            /\ UNCHANGED << last_placed, raised >>

DoCancelAllOrders ==
    \E symbol \in SymbolSet :
        LET r == cancel_all_orders(Engine, symbol)
        IN  Becomes(r.eng) /\ OtherCall

CloseArgs == { <<Symbols[1]>>, <<Symbols[2]>>, Symbols }

DoClosePositions ==
    \E symbols \in CloseArgs :
      \E samples \in [{ symbols[i] : i \in 1..Len(symbols) } -> LatencySamples] :
        LET r == close_positions(Engine, symbols, samples)
        IN  /\ r.eng.uuid_count <= MaxOrders
            /\ Becomes(r.eng)
            /\ OtherCall

CursorNext ==
    \/ DoNext
    \/ DoNextTarget
    \/ DoWait
    \/ DoWaitSeconds
    \/ DoWaitMinutes

Next ==
    \/ CursorNext
    \/ DoPlaceOrder
    \/ DoCancelOrder
    \/ DoCancelAllOrders
    \/ DoClosePositions

Init == \E loaded \in Scenarios : Constructed(loaded)

Spec == Init /\ [][Next]_vars

InitCursor == \E loaded \in AllLoads : Constructed(loaded)

SpecCursor == InitCursor /\ [][CursorNext]_vars

\* place_order with its outcome observed: raised records whether it raised
DoPlaceOrderObserved ==
    \E symbol \in SymbolSet \cup {UnknownSymbol}, o \in OrderInputs,
       sample \in LatencySamples :
        LET r == place_order(Engine, symbol, o.qty, o.price, o.type, sample)
        IN  /\ r.eng.uuid_count <= MaxOrders
            /\ Becomes(r.eng)
            /\ last_placed' = r.order_id
            /\ raised' = r.raised
            /\ UNCHANGED cancel_requested

\* next() with the outcome of the call before it forgotten
DoNextObserved ==
    \E draws \in Draws :
        LET r == single_step(Engine, draws)
        IN  /\ Becomes(r.eng)
            /\ last_placed' = 0
            /\ raised' = FALSE
            /\ UNCHANGED cancel_requested

PlaceNext ==
    \/ DoPlaceOrderObserved
    \/ DoNextObserved

\* runs of place_order and single steps with the outcome of each call observed
SpecPlace == Init /\ [][PlaceNext]_vars

\* runs of ticks and order placements under the configurations LatencyConfigs
InitFill ==
    \E loaded \in FillScenarios, config \in LatencyConfigs :
        ConstructedWith(loaded, config)

FillNext ==
    \/ DoNext
    \/ DoNextTarget
    \/ DoPlaceOrder

SpecFill == InitFill /\ [][FillNext]_vars

\* runs of SimulationPosition.add_trade alone: one symbol starts from a
\* position of any size up to MaxSize at an entry price between the trade
\* prices (a flat position may keep the entry price of the position closed
\* before), the other symbol starts flat
PriorPositions ==
    { [NewPosition EXCEPT !.size = size, !.avg_price = avg_price] :
          size \in (-MaxSize)..MaxSize, avg_price \in { RInt(100), Rat(201, 2) } }
        \cup { NewPosition }

TradeQtys == { qty \in (-MaxSize)..MaxSize : qty # 0 }

TradePrices == { RInt(99), RInt(101) }

TradeFees == { Zero, Rat(1, 100) }

InitPosition ==
    \E loaded \in FillScenarios, held \in SymbolSet, prior \in PriorPositions :
        LET e == single_step(load_all_data(NewEngine, loaded), << >>).eng
        IN  /\ latency_config = e.latency_config
            /\ data_frames = e.data_frames
            /\ current_indices = e.current_indices
            /\ current_time = e.current_time
            /\ current_data = e.current_data
            /\ positions = [s \in SymbolSet |->
                               IF s = held
                               THEN update_mark_price(prior, e.positions[s].mark_price)
                               ELSE e.positions[s]]
            /\ orders = e.orders
            /\ pending_orders = e.pending_orders
            /\ order_history = e.order_history
            /\ execution_history = e.execution_history
            /\ wallet_balance = e.wallet_balance
            /\ uuid_count = e.uuid_count
            /\ last_placed = 0
            /\ cancel_requested = {}
            /\ raised = FALSE

\* positions[symbol].add_trade(qty, price, fee), on a position that no trade
\* has changed yet
DoAddTrade ==
    \E symbol \in SymbolSet, qty \in TradeQtys, price \in TradePrices, fee \in TradeFees :
        LET pos == add_trade(positions[symbol], qty, price, fee)
        IN  /\ [positions[symbol] EXCEPT !.mark_price = Zero, !.unrealized_pnl = Zero]
                   \in PriorPositions
            /\ positions' = [positions EXCEPT ![symbol] = pos]
            /\ UNCHANGED << latency_config, data_frames, current_indices, current_time,
                            current_data, orders, pending_orders, order_history,
                            execution_history, wallet_balance, uuid_count,
                            last_placed, cancel_requested, raised >>

SpecPosition == InitPosition /\ [][DoAddTrade]_vars

\* runs of single-step next() calls only
SpecStep == InitCursor /\ [][DoNext]_vars

\* place_order(symbol, qty, type="Market"), for one order more than MaxOrders
DoPlaceMarketOrder ==
    \E symbol \in SymbolSet, qty \in OrderQtys, sample \in LatencySamples :
        LET r == place_order(Engine, symbol, qty, NoPrice, "Market", sample)
        IN  /\ r.eng.uuid_count <= MaxOrders + 1
            /\ Becomes(r.eng)
            /\ last_placed' = r.order_id
            /\ UNCHANGED << cancel_requested, raised >>

InitRoundTrip ==
    \E loaded \in RoundTripScenarios, config \in LatencyConfigs :
        ConstructedWith(loaded, config)

RoundTripNext ==
    \/ DoNext
    \/ DoPlaceMarketOrder

\* runs of single steps and Market orders, long enough for a buy and a sell
SpecRoundTrip == InitRoundTrip /\ [][RoundTripNext]_vars

\* close_positions(symbols), for the orders it places beyond those of
\* place_order
DoClosePositionsBeyond ==
    \E symbols \in CloseArgs :
      \E samples \in [{ symbols[i] : i \in 1..Len(symbols) } -> LatencySamples] :
        LET r == close_positions(Engine, symbols, samples)
        IN  /\ uuid_count <= MaxOrders + 1
            /\ r.eng.uuid_count <= MaxOrders + 1 + Len(symbols)
            /\ Becomes(r.eng)
            /\ OtherCall

InitClose == \E loaded \in RoundTripScenarios : Constructed(loaded)

CloseNext ==
    \/ DoNext
    \/ DoPlaceMarketOrder
    \/ DoClosePositionsBeyond

\* runs of single steps and Market orders in which close_positions can place
\* an order for every symbol
SpecClose == InitClose /\ [][CloseNext]_vars

\* place_order for the orders placed beyond MaxOrders
DoPlaceOrderBeyond ==
    \E symbol \in SymbolSet, o \in OrderInputs, sample \in LatencySamples :
        LET r == place_order(Engine, symbol, o.qty, o.price, o.type, sample)
        IN  /\ r.eng.uuid_count <= MaxOrders + 1
            /\ Becomes(r.eng)
            /\ last_placed' = r.order_id
            /\ UNCHANGED << cancel_requested, raised >>

InitCancel == \E loaded \in FillScenarios : Constructed(loaded)

CancelNext ==
    \/ DoNext
    \/ DoPlaceOrderBeyond
    \/ DoCancelAllOrders

\* runs of single steps in which orders of both symbols and both types wait
\* in Pending and Active together and cancel_all_orders is called
SpecCancel == InitCancel /\ [][CancelNext]_vars

InitNoData ==
    \E loaded \in NoDataLoads, config \in LatencyConfigs :
        ConstructedWith(loaded, config)

\* runs of every operation on an engine constructed without any data
SpecNoData == InitNoData /\ [][Next]_vars

(***************************************************************************)
(* Vocabulary of the properties.                                            *)
(***************************************************************************)
HasNext(e, symbol) == e.current_indices[symbol] < Len(e.data_frames[symbol])

NextRow(e, symbol) == e.data_frames[symbol][e.current_indices[symbol] + 1]

Exhausted(e) == \A symbol \in SymbolSet : ~HasNext(e, symbol)

ExhaustedNow == Exhausted(Engine)

\* ids created and then dropped from the pipeline without a fill
DroppedIds(e) ==
    (1..e.uuid_count) \ (PendingIds(e) \cup ActiveIds(e) \cup FilledIds(e))

RECURSIVE SumFees(_)
SumFees(executions) ==
    IF executions = << >> THEN Zero
    ELSE RAdd(Head(executions).exec_fee, SumFees(Tail(executions)))

\* the execution records appended by the step from this state to the next
NewExecutions ==
    { execution_history'[j] :
          j \in (Len(execution_history) + 1)..Len(execution_history') }

\* the snapshot in the cache of e touches the price of the limit order
Touched(e, order) ==
    /\ order.order_type = "Limit"
    /\ order.symbol \in DOMAIN e.current_data
    /\ IF order.side = "Buy"
       THEN RLe(RInt(e.current_data[order.symbol].ask), order.price)
       ELSE RLe(order.price, RInt(e.current_data[order.symbol].bid))

\* the orders of e that are Active in a tick at time t, after its promotion
ActiveAt(e, t) ==
    { e.orders[i] : i \in 1..Len(e.orders) }
        \cup { e.pending_orders[i] : i \in { k \in 1..Len(e.pending_orders) :
                                                e.pending_orders[k].execution_time <= t } }

\* n single-step next() calls in a row; ok when each returned true
RECURSIVE StepN(_, _, _)
StepN(e, n, draws) ==
    IF n = 0 THEN [eng |-> e, ok |-> TRUE]
    ELSE LET r == single_step(e, draws)
         IN  IF r.ret THEN StepN(r.eng, n - 1, draws) ELSE [eng |-> r.eng, ok |-> FALSE]

\* a Market buy of 1 and then a Market sell of 1 of symbol, each placed with
\* latency 0 and followed by one single-step next()
RoundTrip(e, symbol, draws) ==
    LET bought == place_order(e, symbol, 1, NoPrice, "Market", Zero).eng
        t1 == single_step(bought, draws)
        sold == place_order(t1.eng, symbol, -1, NoPrice, "Market", Zero).eng
        t2 == single_step(sold, draws)
    IN  [ok |-> t1.ret /\ t2.ret, buy |-> t1.eng, eng |-> t2.eng]

\* symbol has no position and no order in the pipeline of e
Flat(e, symbol) ==
    /\ e.positions[symbol].size = 0
    /\ \A i \in 1..Len(e.orders) : e.orders[i].symbol # symbol
    /\ \A i \in 1..Len(e.pending_orders) : e.pending_orders[i].symbol # symbol

\* both fills of the round trip of symbol from e met the same best bid and ask
SameBook(e, symbol, draws) ==
    LET r == RoundTrip(e, symbol, draws)
    IN  /\ r.ok
        /\ symbol \in DOMAIN r.buy.current_data
        /\ symbol \in DOMAIN r.eng.current_data
        /\ r.buy.current_data[symbol].bid = r.eng.current_data[symbol].bid
        /\ r.buy.current_data[symbol].ask = r.eng.current_data[symbol].ask

IsPrefix(earlier, later) ==
    /\ Len(earlier) <= Len(later)
    /\ SubSeq(later, 1, Len(earlier)) = earlier

\* the n last elements of seq, all of them when it has fewer
LastN(seq, n) == SubSeq(seq, Max(Len(seq) - n, 0) + 1, Len(seq))

\* limits and time bounds of the history queries; NoTime leaves a bound out
QueryLimits == 1..(MaxOrders + 1)

QueryTimes == {NoTime} \cup 1..MaxTs

\* the quantities place_order accepts: it checks the symbol only
AcceptedQtys == OrderQtys \cup {0}

\* every order of e, wherever it is kept
AllOrders(e) ==
    { e.pending_orders[i] : i \in 1..Len(e.pending_orders) }
        \cup { e.orders[i] : i \in 1..Len(e.orders) }
        \cup { e.order_history[i] : i \in 1..Len(e.order_history) }

\* the results of every call that can make a tick from e: next(),
\* next(target_time), wait_seconds and wait_minutes
TickCalls(e, draws) ==
    { single_step(e, draws) }
        \cup { jump_to_time(e, target_time, draws) : target_time \in TargetTimes }
        \cup { wait_seconds(e, seconds, draws) : seconds \in WaitInputs }
        \cup { wait_minutes(e, minutes, draws) : minutes \in MinuteInputs }

\* the results of every call that jumps from e: next(target_time),
\* wait_seconds and wait_minutes, each with the target it jumps to
JumpCalls(e, draws) ==
    { [target_time |-> target_time, res |-> jump_to_time(e, target_time, draws)] :
          target_time \in TargetTimes }
        \cup { [target_time |-> e.current_time + IntTrunc(seconds),
                res |-> wait_seconds(e, seconds, draws)] : seconds \in WaitInputs }
        \cup { [target_time |-> e.current_time + IntTrunc(RMul(minutes, RInt(60))),
                res |-> wait_minutes(e, minutes, draws)] : minutes \in MinuteInputs }

\* single-step next() calls from e, at most n, up to the first tick at or
\* after execution_time that carries a snapshot of symbol: prior is the
\* engine before that tick, eng the engine after it
RECURSIVE FirstTickFor(_, _, _, _, _)
FirstTickFor(e, symbol, execution_time, n, draws) ==
    IF n = 0 THEN [found |-> FALSE, prior |-> e, eng |-> e]
    ELSE LET t == single_step(e, draws)
         IN  IF ~t.ret THEN [found |-> FALSE, prior |-> e, eng |-> e]
             ELSE IF t.eng.current_time >= execution_time
                     /\ symbol \in DOMAIN t.eng.current_data
             THEN [found |-> TRUE, prior |-> e, eng |-> t.eng]
             ELSE FirstTickFor(t.eng, symbol, execution_time, n - 1, draws)

\* the order ids of a sequence of orders, in its order
IdsOf(seq) == [i \in 1..Len(seq) |-> seq[i].order_id]

\* what jump equivalence compares
Outcome(e) ==
    [current_time      |-> e.current_time,
     positions         |-> e.positions,
     wallet_balance    |-> e.wallet_balance,
     execution_history |-> e.execution_history,
     order_history     |-> e.order_history]

\* every cursor call on e returns false and leaves e as it is
CursorInert(e) ==
    \A draws \in DrawsOf(e) :
        /\ single_step(e, draws) = [eng |-> e, ret |-> FALSE]
        /\ \A target_time \in TargetTimes :
               jump_to_time(e, target_time, draws) = [eng |-> e, ret |-> FALSE]
        /\ \A seconds \in WaitInputs :
               wait_seconds(e, seconds, draws) = [eng |-> e, ret |-> FALSE]
        /\ \A minutes \in MinuteInputs :
               wait_minutes(e, minutes, draws) = [eng |-> e, ret |-> FALSE]
        /\ \A timeout \in WaitInputs : wait(e, timeout, draws) = e

(***************************************************************************)
(* C1..C10: time cursor, cancellation, wallet.                              *)
(***************************************************************************)
\* C1: current_time never decreases: whatever call is made in a reachable
\* state (next(), next(target), a wait of any duration, negative ones
\* included, place_order, cancel_order, close_positions), and whether or not
\* it returns true, current_time after the call is >= current_time before.
C1_MonotonicTime ==
    /\ \A draws \in Draws :
        /\ single_step(Engine, draws).eng.current_time >= current_time
        /\ \A target_time \in TargetTimes :
               jump_to_time(Engine, target_time, draws).eng.current_time >= current_time
        /\ \A seconds \in WaitInputs :
               /\ wait_seconds(Engine, seconds, draws).eng.current_time >= current_time
               /\ wait(Engine, seconds, draws).current_time >= current_time
        /\ \A minutes \in MinuteInputs :
               wait_minutes(Engine, minutes, draws).eng.current_time >= current_time
    /\ \A symbol \in SymbolSet \cup {UnknownSymbol}, o \in OrderInputs,
          sample \in LatencySamples :
           place_order(Engine, symbol, o.qty, o.price, o.type, sample).eng.current_time
               = current_time
    /\ \A order_id \in 0..(MaxOrders + 1) :
           cancel_order(Engine, order_id).eng.current_time = current_time
    /\ \A symbol \in SymbolSet :
           cancel_all_orders(Engine, symbol).eng.current_time = current_time
    /\ \A symbols \in CloseArgs, sample \in LatencySamples :
           close_positions(Engine, symbols, [s \in SymbolSet |-> sample]).eng.current_time
               = current_time

\* the clock has moved past the first tick while a stream still has rows
C1_Witness ==
    /\ current_time >= 2
    /\ \E symbol \in SymbolSet : current_indices[symbol] >= 2
    /\ ~ExhaustedNow

\* C2: a single-step next() consumes exactly the snapshots at the minimum
\* next timestamp: a symbol whose next snapshot is strictly later keeps its
\* index and its cached snapshot is not replaced by that later snapshot, and
\* current_time becomes the minimum.
C2_ConsumesExactlyMinimum ==
    \A draws \in Draws :
        LET r == single_step(Engine, draws)
            ready == { symbol \in SymbolSet : HasNext(Engine, symbol) }
        IN  r.ret =>
              \A symbol \in ready :
                  /\ r.eng.current_time <= NextRow(Engine, symbol).ts
                  /\ \E first \in ready : r.eng.current_time = NextRow(Engine, first).ts
                  /\ NextRow(Engine, symbol).ts > r.eng.current_time =>
                        /\ r.eng.current_indices[symbol] = current_indices[symbol]
                        /\ ~(/\ symbol \in DOMAIN r.eng.current_data
                             /\ r.eng.current_data[symbol] = NextRow(Engine, symbol))

\* C3: with two symbols whose timestamps are pairwise disjoint (no timestamp
\* occurs twice, within a symbol or across the two), single steps consume the
\* snapshots in increasing timestamp order overall: the snapshot of a symbol
\* in the market-state cache is never later than a snapshot of the other
\* symbol that is still unconsumed.
C3_GlobalTimestampOrder ==
    LET Ts(symbol) == { data_frames[symbol][i].ts : i \in 1..Len(data_frames[symbol]) }
        Disjoint == /\ Ts(Symbols[1]) \cap Ts(Symbols[2]) = {}
                    /\ \A symbol \in SymbolSet :
                           Cardinality(Ts(symbol)) = Len(data_frames[symbol])
    IN  Disjoint =>
          \A symbol \in DOMAIN current_data :
              \A other \in SymbolSet \ {symbol} :
                  HasNext(Engine, other) =>
                      current_data[symbol].ts < NextRow(Engine, other).ts

\* C4: whenever wait_seconds(s) with s >= 0, or next(target_time=T), returns
\* true, current_time afterwards is at or after the target: at least
\* current_time before + s * 10^9, respectively at least T, also when some
\* symbol has no snapshot left at or after the target.  Durations are taken
\* in whole nanoseconds, so that the truncation of s * 10^9 plays no part.
C4_WaitReachesTarget ==
    \A draws \in Draws :
        /\ \A target_time \in TargetTimes :
               LET r == jump_to_time(Engine, target_time, draws)
               IN  r.ret => r.eng.current_time >= target_time
        /\ \A seconds \in { w \in WaitInputs : w.d = 1 /\ RLe(Zero, w) } :
               LET r == wait_seconds(Engine, seconds, draws)
               IN  r.ret => r.eng.current_time >= current_time + seconds.n

\* C5: next(), next(target_time) and the waits return false only when every
\* symbol's stream has been fully consumed.
C5_FalseOnlyWhenExhausted ==
    \A draws \in Draws :
        /\ ~single_step(Engine, draws).ret => ExhaustedNow
        /\ \A target_time \in TargetTimes :
               ~jump_to_time(Engine, target_time, draws).ret => ExhaustedNow
        /\ \A seconds \in WaitInputs :
               ~wait_seconds(Engine, seconds, draws).ret => ExhaustedNow
        /\ \A minutes \in MinuteInputs :
               ~wait_minutes(Engine, minutes, draws).ret => ExhaustedNow

\* C6: exhaustion is terminal: from the state in which a single-step next()
\* returns false on, every next(), next(target) and wait returns false and
\* changes nothing (time, cache, Pending, Active, positions, wallet,
\* history), and no later call of any kind makes data available again.
C6_ExhaustionTerminal ==
    /\ [](ExhaustedNow => CursorInert(Engine))
    /\ [][ExhaustedNow => ExhaustedNow']_vars

\* every stream is consumed while an order that is due is still Pending and
\* another call has been made since
C6_Witness ==
    /\ ExhaustedNow
    /\ \E i \in 1..Len(pending_orders) :
           pending_orders[i].execution_time <= current_time
    /\ last_placed = 0

\* C7: jump equivalence: when N single-step next() calls in a row succeed and
\* end at time T, one wait of T - current_time from the same state gives the
\* same current_time, positions, wallet and histories.
C7_JumpEquivalence ==
    \A draws \in Draws, n \in 1..MaxLen :
        LET stepped == StepN(Engine, n, draws)
            waited == wait_seconds(Engine, RInt(stepped.eng.current_time - current_time),
                                   draws)
        IN  stepped.ok => Outcome(waited.eng) = Outcome(stepped.eng)

\* C8: a limit order cancelled right after its place_order, before any
\* advance, never fills: no execution record and no filled order carries its
\* id, whatever next/wait calls follow.
C8_CancelledNeverFills ==
    \A order_id \in cancel_requested :
        /\ \A i \in 1..Len(order_history) :
               order_history[i].order_id = order_id =>
                   order_history[i].order_type # "Limit"
        /\ \A i \in 1..Len(execution_history) :
               execution_history[i].order_id = order_id =>
                   execution_history[i].order_type # "Limit"

\* C9: cancel_order(id) returns 0 exactly when id is Active and then removes
\* that order from Active and nothing else; for any other id it returns
\* nonzero and leaves the engine as it is; an order dropped from the
\* pipeline never comes back and never fills.
C9_CancelSemantics ==
    /\ [](\A order_id \in 0..(MaxOrders + 1) :
            LET r == cancel_order(Engine, order_id)
                Other(o) == o.order_id # order_id
            IN  IF order_id \in ActiveIds(Engine)
                THEN /\ r.ret = 0
                     /\ r.eng = [Engine EXCEPT !.orders = SelectSeq(orders, Other)]
                     /\ order_id \in DroppedIds(r.eng)
                ELSE r.ret # 0 /\ r.eng = Engine)
    /\ [][DroppedIds(Engine) \subseteq DroppedIds(Engine)']_vars

\* an order was promoted to Active and then cancelled out of it, unfilled
C9_Witness ==
    /\ DroppedIds(Engine) # {}
    /\ execution_history = << >>
    /\ last_placed = 0

C11_PositionConsistency ==
    \A symbol \in SymbolSet :
        LET pos == positions[symbol]
        IN  IF pos.size # 0
            THEN pos.unrealized_pnl
                     = RMul(RInt(pos.size), RSub(pos.mark_price, pos.avg_price))
            ELSE pos.unrealized_pnl = Zero

\* C12: conservation of quantity: every order in the filled-orders history
\* has status Filled and filled_qty = qty, exactly one execution record
\* carries its id, and that record's qty is the order's qty; every execution
\* record belongs to an order of the history, and an order still Pending or
\* Active has nothing filled.
C12_ConservationOfQty ==
    /\ \A i \in 1..Len(order_history) :
           LET order == order_history[i]
               records == { j \in 1..Len(execution_history) :
                              execution_history[j].order_id = order.order_id }
           IN  /\ order.status = "Filled"
               /\ order.filled_qty = order.qty
               /\ Cardinality(records) = 1
               /\ \A j \in records : execution_history[j].qty = order.qty
    /\ \A j \in 1..Len(execution_history) :
           execution_history[j].order_id \in FilledIds(Engine)
    /\ \A i \in 1..Len(orders) :
           orders[i].status = "New" /\ orders[i].filled_qty = 0
    /\ \A i \in 1..Len(pending_orders) :
           pending_orders[i].status = "New" /\ pending_orders[i].filled_qty = 0

\* an order has filled and the run has gone on to a later tick
C12_Witness ==
    /\ order_history # << >>
    /\ \E j \in 1..Len(execution_history) :
           execution_history[j].exec_time < current_time

\* C13: slippage direction: every Market Buy execution has a fill price >=
\* the best ask of its symbol in the snapshot of the tick in which it fills,
\* every Market Sell execution a fill price <= the best bid of that snapshot
\* (the slippage being non-negative), and a Limit execution carries no
\* slippage: its price is the limit price or the touched best price itself.
C13_SlippageDirection ==
    [][\A x \in NewExecutions :
          LET data == current_data'[x.symbol]
          IN  /\ x.symbol \in DOMAIN current_data'
              /\ x.exec_time = current_time'
              /\ (x.order_type = "Market" /\ x.side = "Buy") =>
                     RLe(RInt(data.ask), x.price)
              /\ (x.order_type = "Market" /\ x.side = "Sell") =>
                     RLe(x.price, RInt(data.bid))
              /\ x.order_type = "Limit" =>
                     x.price \in { x.order_price, RInt(data.ask), RInt(data.bid) }]_vars

\* a Market Buy has filled strictly above a whole-number best ask
C13_Witness ==
    \E j \in 1..Len(execution_history) :
        /\ execution_history[j].order_type = "Market"
        /\ execution_history[j].side = "Buy"
        /\ execution_history[j].price.d # 1

\* C14: limit fill rule: a Limit Buy fills only in a tick whose snapshot of
\* its symbol has best ask <= limit price, at min(limit, best ask), so never
\* above the limit; a Limit Sell only when best bid >= limit price, at
\* max(limit, best bid), so never below the limit.
C14_LimitFillRule ==
    [][\A x \in NewExecutions :
          LET data == current_data'[x.symbol]
          IN  x.order_type = "Limit" =>
                /\ x.symbol \in DOMAIN current_data'
                /\ x.side = "Buy" =>
                      /\ RLe(RInt(data.ask), x.order_price)
                      /\ x.price = RMin(x.order_price, RInt(data.ask))
                      /\ RLe(x.price, x.order_price)
                /\ x.side = "Sell" =>
                      /\ RLe(x.order_price, RInt(data.bid))
                      /\ x.price = RMax(x.order_price, RInt(data.bid))
                      /\ RLe(x.order_price, x.price)]_vars

\* a Limit order has filled at a price better than its limit
C14_Witness ==
    \E j \in 1..Len(execution_history) :
        /\ execution_history[j].order_type = "Limit"
        /\ execution_history[j].price # execution_history[j].order_price

C16_RejectedDrawStaysActive ==
    \A draws \in Draws :
      \A r \in { single_step(Engine, draws) }
                 \cup { jump_to_time(Engine, t, draws) : t \in TargetTimes } :
        r.ret =>
          \A order \in ActiveAt(Engine, r.eng.current_time) :
            Touched(r.eng, order) =>
              IF should_fill_limit_order(Engine, draws[order.order_id])
              THEN /\ order.order_id \in FilledIds(r.eng)
                   /\ order.order_id \notin ActiveIds(r.eng)
              ELSE /\ \E i \in 1..Len(r.eng.orders) : r.eng.orders[i] = order
                   /\ order.order_id \notin FilledIds(r.eng)
                   /\ \A j \in 1..Len(r.eng.execution_history) :
                          r.eng.execution_history[j].order_id # order.order_id
                   /\ r.eng.execution_history = execution_history =>
                          /\ r.eng.wallet_balance = wallet_balance
                          /\ \A symbol \in SymbolSet :
                                 /\ r.eng.positions[symbol].size = positions[symbol].size
                                 /\ r.eng.positions[symbol].avg_price
                                        = positions[symbol].avg_price
                                 /\ r.eng.positions[symbol].realized_pnl
                                        = positions[symbol].realized_pnl

\* a Limit order is Active although the snapshot in the cache touches its
\* price: its draw was rejected in the tick just made
C16_Witness ==
    \E i \in 1..Len(orders) :
        /\ Touched(Engine, orders[i])
        /\ orders[i].status = "New"
        /\ execution_history = << >>

\* C17: a Market order fills in the very tick that promotes it, for its full
\* qty at apply_slippage(best opposite price, side), whenever the data of
\* that tick holds a snapshot of its symbol; when it does not, the order
\* stays in Active as it was, without an execution record and without an
\* error, and the same holds again at every later tick.
C17_MarketFillsOnPromotion ==
    \A draws \in Draws :
      \A r \in { single_step(Engine, draws) }
                 \cup { jump_to_time(Engine, t, draws) : t \in TargetTimes } :
        r.ret =>
          \A order \in ActiveAt(Engine, r.eng.current_time) :
            order.order_type = "Market" =>
              IF order.symbol \in DOMAIN r.eng.current_data
              THEN LET data == r.eng.current_data[order.symbol]
                       best == IF order.side = "Buy" THEN data.ask ELSE data.bid
                   IN  /\ order.order_id \notin ActiveIds(r.eng)
                       /\ \E i \in 1..Len(r.eng.order_history) :
                              r.eng.order_history[i] =
                                  [order EXCEPT !.status = "Filled",
                                                !.filled_qty = order.qty,
                                                !.avg_price =
                                                    apply_slippage(Engine, RInt(best),
                                                                   order.side)]
                       /\ \E j \in 1..Len(r.eng.execution_history) :
                              LET x == r.eng.execution_history[j]
                              IN  /\ x.order_id = order.order_id
                                  /\ x.qty = order.qty
                                  /\ x.price = apply_slippage(Engine, RInt(best),
                                                              order.side)
                                  /\ x.exec_time = r.eng.current_time
              ELSE /\ \E i \in 1..Len(r.eng.orders) : r.eng.orders[i] = order
                   /\ order.order_id \notin FilledIds(r.eng)
                   /\ \A j \in 1..Len(r.eng.execution_history) :
                          r.eng.execution_history[j].order_id # order.order_id

\* a Market order was promoted in a tick without a snapshot of its symbol
\* and waits in Active
C17_Witness ==
    \E i \in 1..Len(orders) :
        /\ orders[i].order_type = "Market"
        /\ orders[i].symbol \notin DOMAIN current_data
        /\ last_placed = 0

\* C18: place_order for a symbol that is not in the constructed list fails
\* with an error and leaves the engine as it is: nothing is added to Pending
\* or Active, no latency sample is drawn, no id is used up, and positions,
\* wallet, history and current_time are unchanged.
C18_UnknownSymbolRejected ==
    \A o \in OrderInputs, sample \in LatencySamples :
        LET r == place_order(Engine, UnknownSymbol, o.qty, o.price, o.type, sample)
        IN  /\ r.raised
            /\ ~r.sampled
            /\ r.eng = Engine

\* the last call was a place_order that raised, made while an order placed
\* earlier is still in the pipeline
C18_Witness ==
    /\ raised
    /\ Len(pending_orders) + Len(orders) > 0

\* C19: a successful place_order only appends one new order to Pending: its
\* id differs from every id issued before, its side is Buy iff qty > 0, its
\* qty is |qty|, submission_time = current_time and execution_time =
\* current_time + the sampled latency (never before current_time); it
\* returns ret_code 0 and time = current_time, fills nothing, and leaves
\* Active, positions, wallet, histories, cache, indices and current_time as
\* they are.
C19_PlaceOrderOnlyAppends ==
    \A symbol \in SymbolSet, o \in OrderInputs, sample \in LatencySamples :
        LET r == place_order(Engine, symbol, o.qty, o.price, o.type, sample)
            placed == r.eng.pending_orders[Len(r.eng.pending_orders)]
        IN  /\ ~r.raised
            /\ r.ret_code = 0
            /\ r.time = current_time
            /\ Len(r.eng.pending_orders) = Len(pending_orders) + 1
            /\ r.order_id = placed.order_id
            /\ r.eng = [Engine EXCEPT !.pending_orders = Append(pending_orders, placed),
                                       !.uuid_count = r.eng.uuid_count]
            /\ placed.order_id \notin PendingIds(Engine) \cup ActiveIds(Engine)
                                      \cup FilledIds(Engine) \cup DroppedIds(Engine)
            /\ placed.symbol = symbol
            /\ placed.order_type = o.type
            /\ (placed.side = "Buy") <=> (o.qty > 0)
            /\ placed.side \in {"Buy", "Sell"}
            /\ placed.qty = Abs(o.qty)
            /\ placed.status = "New" /\ placed.filled_qty = 0
            /\ placed.submission_time = current_time
            /\ placed.execution_time = current_time + simulate_latency(sample)
            /\ placed.execution_time >= current_time

\* the last call placed an order that waits in Pending for a latency that
\* has not yet passed
C19_Witness ==
    /\ last_placed # 0
    /\ \E i \in 1..Len(pending_orders) :
           /\ pending_orders[i].order_id = last_placed
           /\ pending_orders[i].execution_time > current_time

\* C20: add_trade(signed_qty, price, fee) agrees with the four-case rule for
\* every prior position and every nonzero signed_qty: opening sets size and
\* avg_price; a same-sign trade adds to size and makes avg_price the
\* quantity-weighted mean; an opposite-sign trade with |signed_qty| < |size|
\* adds (-signed_qty) * (price - avg_price) - fee to realized_pnl and keeps
\* avg_price; an opposite-sign trade with |signed_qty| >= |size| adds
\* size * (price - avg_price) - fee to realized_pnl, sets size to signed_qty +
\* size, and sets avg_price to price iff the new size is not 0.  Nothing else
\* of the position changes.
C20_AddTradeFourCases ==
    \A symbol \in SymbolSet, qty \in TradeQtys, price \in TradePrices, fee \in TradeFees :
        LET pos == positions[symbol]
            new == add_trade(pos, qty, price, fee)
            gain(closed) == RSub(RMul(RInt(closed), RSub(price, pos.avg_price)), fee)
        IN  /\ new.size = pos.size + qty
            /\ new.mark_price = pos.mark_price
            /\ new.unrealized_pnl = pos.unrealized_pnl
            /\ new.leverage = pos.leverage
            /\ IF pos.size = 0
               THEN /\ new.avg_price = price
                    /\ new.realized_pnl = pos.realized_pnl
               ELSE IF pos.size * qty > 0
               THEN /\ RMul(new.avg_price, RInt(pos.size + qty))
                          = RAdd(RMul(RInt(pos.size), pos.avg_price),
                                 RMul(RInt(qty), price))
                    /\ new.realized_pnl = pos.realized_pnl
               ELSE IF Abs(qty) < Abs(pos.size)
               THEN /\ new.avg_price = pos.avg_price
                    /\ new.realized_pnl = RAdd(pos.realized_pnl, gain(-qty))
               ELSE /\ new.realized_pnl = RAdd(pos.realized_pnl, gain(pos.size))
                    /\ new.size # 0 => new.avg_price = price
                    /\ new.size = 0 => new.avg_price = pos.avg_price

\* a position that realized PnL by a trade against it and is open at an
\* entry price equal to a trade price: it was flipped or reduced
C20_Witness ==
    \E symbol \in SymbolSet :
        /\ positions[symbol].realized_pnl # Zero
        /\ positions[symbol].size # 0
        /\ positions[symbol].avg_price \in TradePrices

(***************************************************************************)
(* C21..C30: round trip, market-state cache, queries, history.              *)
(***************************************************************************)
\* C21: round trip: from a flat position, a Market buy of 1 and then a Market
\* sell of 1, both with latency 0 and both filled against the same best bid
\* and best ask, end with size 0 and with realized_pnl lower by
\* (buy_slip + sell_slip) * 1 + fees than before, buy_slip being what the
\* slippage adds to the ask, sell_slip what it takes from the bid, and fees
\* the fees of the two fills.
C21_RoundTrip ==
    \A symbol \in SymbolSet, draws \in Draws :
        (Flat(Engine, symbol) /\ SameBook(Engine, symbol, draws)) =>
            LET r == RoundTrip(Engine, symbol, draws).eng
                data == r.current_data[symbol]
                Of(x) == x.symbol = symbol
                fills == SelectSeq(r.execution_history, Of)
                n == Len(fills)
                buy_slip == RSub(fills[n - 1].price, RInt(data.ask))
                sell_slip == RSub(RInt(data.bid), fills[n].price)
                fees == RAdd(fills[n - 1].exec_fee, fills[n].exec_fee)
            IN  /\ n >= 2
                /\ r.positions[symbol].size = 0
                /\ r.positions[symbol].realized_pnl
                       = RSub(positions[symbol].realized_pnl,
                              RAdd(RAdd(buy_slip, sell_slip), fees))

\* C21, amended: the same round trip ends with size 0 and with realized_pnl
\* lower by (best ask - best bid) + (buy_slip + sell_slip) + the fee of the
\* sell fill than before: the spread is lost as well, and of the two fees
\* only that of the closing fill is booked into realized_pnl; the two fills
\* are the last two execution records of the symbol, the buy before the
\* sell, and both fees have left the wallet.
C21_RoundTripAmended ==
    \A symbol \in SymbolSet, draws \in Draws :
        (Flat(Engine, symbol) /\ SameBook(Engine, symbol, draws)) =>
            LET r == RoundTrip(Engine, symbol, draws).eng
                data == r.current_data[symbol]
                Of(x) == x.symbol = symbol
                fills == SelectSeq(r.execution_history, Of)
                n == Len(fills)
                slippage_factor == Rat(latency_config.market_order_slippage_bps, 10000)
                buy_slip == RMul(RInt(data.ask), slippage_factor)
                sell_slip == RMul(RInt(data.bid), slippage_factor)
                buy == fills[n - 1]
                sell == fills[n]
            IN  /\ n = Len(SelectSeq(execution_history, Of)) + 2
                /\ buy.side = "Buy" /\ buy.qty = 1
                /\ sell.side = "Sell" /\ sell.qty = 1
                /\ buy.price = RAdd(RInt(data.ask), buy_slip)
                /\ sell.price = RSub(RInt(data.bid), sell_slip)
                /\ r.positions[symbol].size = 0
                /\ r.positions[symbol].realized_pnl
                       = RSub(positions[symbol].realized_pnl,
                              RAdd(RAdd(RInt(data.ask - data.bid),
                                        RAdd(buy_slip, sell_slip)),
                                   sell.exec_fee))
                /\ RLe(r.wallet_balance,
                       RSub(wallet_balance, RAdd(buy.exec_fee, sell.exec_fee)))

\* a round trip has been made: a Market buy of 1 and a Market sell of 1 of
\* one symbol filled in two ticks in a row at the same time, and the
\* position is flat again
C21_Witness ==
    /\ Len(execution_history) = 2
    /\ execution_history[1].side = "Buy"
    /\ execution_history[2].side = "Sell"
    /\ execution_history[1].symbol = execution_history[2].symbol
    /\ execution_history[1].exec_time = execution_history[2].exec_time
    /\ positions[execution_history[1].symbol].size = 0
    /\ RLt(positions[execution_history[1].symbol].realized_pnl, Zero)

\* C22: the market-state cache keeps the most recently consumed snapshot per
\* symbol: once a snapshot of a symbol has been consumed, get_mid, get_bid,
\* get_ask and get_orderbook of that symbol do not fail for the rest of the
\* run, also after its stream has ended while other symbols still deliver,
\* and they answer from the last snapshot consumed for it; they fail with
\* NoData only for a symbol of which no snapshot has been consumed yet.
C22_CacheKeepsLastSnapshot ==
    \A symbol \in SymbolSet :
        IF current_indices[symbol] > 0
        THEN LET last == data_frames[symbol][current_indices[symbol]]
             IN  /\ get_mid(Engine, symbol) = [raised |-> FALSE, mid |-> Mid(last)]
                 /\ get_bid(Engine, symbol) = [raised |-> FALSE, price |-> last.bid]
                 /\ get_ask(Engine, symbol) = [raised |-> FALSE, price |-> last.ask]
                 /\ ~get_orderbook(Engine, symbol).raised
                 /\ get_orderbook(Engine, symbol).ts = last.ts
        ELSE /\ get_mid(Engine, symbol).raised
             /\ get_bid(Engine, symbol).raised
             /\ get_ask(Engine, symbol).raised
             /\ get_orderbook(Engine, symbol).raised

\* C23: when no data is loaded for any symbol, construction succeeds and
\* the engine is Exhausted from the start: current_time stays at its initial
\* value, every next(), next(target) and wait returns false and changes
\* nothing, every market-data query fails with NoData, and place_order for a
\* subscribed symbol still returns ret_code 0 and queues the order in
\* Pending, but no order is ever promoted to Active or filled.
C23_NoDataEngine ==
    /\ ExhaustedNow
    /\ current_time = NewEngine.current_time
    /\ CursorInert(Engine)
    /\ \A symbol \in SymbolSet :
           /\ get_mid(Engine, symbol).raised
           /\ get_bid(Engine, symbol).raised
           /\ get_ask(Engine, symbol).raised
           /\ get_orderbook(Engine, symbol).raised
    /\ \A symbol \in SymbolSet, o \in OrderInputs, sample \in LatencySamples :
           LET r == place_order(Engine, symbol, o.qty, o.price, o.type, sample)
           IN  /\ ~r.raised
               /\ r.ret_code = 0
               /\ r.order_id \in PendingIds(r.eng)
    /\ orders = << >>
    /\ order_history = << >>
    /\ execution_history = << >>
    /\ PendingIds(Engine) = 1..uuid_count
    /\ positions = NewEngine.positions
    /\ wallet_balance = initial_balance

\* on an engine without data an order is due in Pending and a call has been
\* made since it was placed
C23_Witness ==
    /\ data_frames = [s \in SymbolSet |-> << >>]
    /\ \E i \in 1..Len(pending_orders) :
           pending_orders[i].execution_time <= current_time
    /\ last_placed = 0

\* C24: close_positions(symbols) appends to Pending, for each listed symbol
\* whose position has a size other than 0 and in the order listed, exactly
\* one Market order of a fresh id with the side opposite to the position and
\* qty = |size|, due after its sampled latency, and reports ret_code 0 for
\* that symbol; for a listed symbol whose size is 0 it places nothing and
\* reports None; the call changes nothing else: positions, wallet, Active,
\* histories, cache and current_time stay as they are.
C24_ClosePositions ==
    \A symbols \in CloseArgs :
      \A samples \in [{ symbols[i] : i \in 1..Len(symbols) } -> LatencySamples] :
        LET r == close_positions(Engine, symbols, samples)
            Held(symbol) == positions[symbol].size # 0
            held == SelectSeq(symbols, Held)
            n == Len(pending_orders)
        IN  /\ DOMAIN r.responses = { symbols[i] : i \in 1..Len(symbols) }
            /\ \A symbol \in DOMAIN r.responses :
                   r.responses[symbol] = IF Held(symbol) THEN 0 ELSE NoneCode
            /\ Len(r.eng.pending_orders) = n + Len(held)
            /\ SubSeq(r.eng.pending_orders, 1, n) = pending_orders
            /\ r.eng = [Engine EXCEPT !.pending_orders = r.eng.pending_orders,
                                       !.uuid_count = uuid_count + Len(held)]
            /\ \A k \in 1..Len(held) :
                   LET order == r.eng.pending_orders[n + k]
                       size == positions[held[k]].size
                   IN  /\ order.symbol = held[k]
                       /\ order.order_type = "Market"
                       /\ order.side = IF size > 0 THEN "Sell" ELSE "Buy"
                       /\ order.qty = Abs(size)
                       /\ order.status = "New" /\ order.filled_qty = 0
                       /\ order.order_id = uuid_count + k
                       /\ order.submission_time = current_time
                       /\ order.execution_time
                              = current_time + simulate_latency(samples[held[k]])

\* close_positions has placed an order for each of the two symbols: the two
\* newest ids, beyond those place_order can issue, are in Pending, each
\* against the position of its symbol
C24_Witness ==
    /\ uuid_count = MaxOrders + 1 + Len(Symbols)
    /\ Len(pending_orders) = Len(Symbols)
    /\ \A i \in 1..Len(pending_orders) :
           LET order == pending_orders[i]
           IN  /\ order.qty = Abs(positions[order.symbol].size)
               /\ (order.side = "Sell") <=> (positions[order.symbol].size > 0)
    /\ \E i \in 1..Len(pending_orders) : pending_orders[i].side = "Buy"

\* C25: history is append-only and the two logs mirror each other: across
\* every operation the execution log and the filled-orders log only grow,
\* what they held before being a prefix of what they hold after; the two
\* logs always have the same length, their i-th entries carry the same order
\* id, and exec_time never decreases along the execution log.
C25_HistoryAppendOnly ==
    /\ [](/\ Len(execution_history) = Len(order_history)
          /\ \A i \in 1..Len(execution_history) :
                 /\ i <= Len(order_history)
                 /\ execution_history[i].order_id = order_history[i].order_id
          /\ \A i \in 1..(Len(execution_history) - 1) :
                 execution_history[i].exec_time <= execution_history[i + 1].exec_time)
    /\ [][/\ IsPrefix(execution_history, execution_history')
           /\ IsPrefix(order_history, order_history')]_vars

\* the logs hold fills of different orders made in ticks at different times
C25_Witness ==
    \E i \in 1..Len(execution_history) :
        /\ i < Len(execution_history)
        /\ execution_history[i].exec_time < execution_history[i + 1].exec_time
        /\ order_history[i].order_id # order_history[i + 1].order_id
        /\ Len(order_history) >= 3

\* C26: get_trade_history(symbol=S, limit=n) returns the n most recent
\* execution records of S, all of them when there are fewer, in fill order,
\* and of these the ones with start_time <= exec_time <= end_time when the
\* bounds are given; records of other symbols do not reduce what is returned
\* for S.  get_filled_orders(symbol=S, limit=n) and get_trades(S, limit=n)
\* return the n most recent filled orders and trades of S in the same way.
C26_QueryBySymbolAndLimit ==
    \A symbol \in SymbolSet, limit \in QueryLimits :
        LET OfSymbol(x) == x.symbol = symbol
            executions == LastN(SelectSeq(execution_history, OfSymbol), limit)
            filled == LastN(SelectSeq(order_history, OfSymbol), limit)
        IN  /\ \A start_time \in QueryTimes, end_time \in QueryTimes :
                   LET InRange(x) ==
                           /\ start_time # NoTime => start_time <= x.exec_time
                           /\ end_time # NoTime => x.exec_time <= end_time
                   IN  get_trade_history(Engine, symbol, limit, start_time, end_time)
                           = SelectSeq(executions, InRange)
            /\ get_filled_orders(Engine, symbol, limit)
                   = [i \in 1..Len(filled) |-> FilledOrderRecord(filled[i])]
            /\ get_trades(Engine, symbol, limit)
                   = [i \in 1..Len(executions) |-> TradeRecord(executions[i])]

\* C27: all queries return copies: after the caller writes to a record that
\* get_trade_history, get_filled_orders, get_positions or get_pnl returned,
\* the engine is as it was, and the same query returns the same records as
\* before the write.
C27_QueriesReturnCopies ==
    \A symbol \in SymbolSet \cup {NoSymbol}, limit \in QueryLimits :
        /\ \A start_time \in QueryTimes, end_time \in QueryTimes :
               LET returned == get_trade_history(Engine, symbol, limit,
                                                 start_time, end_time)
               IN  \A k \in 1..Len(returned) :
                       LET after == SetReturnedTrade(Engine, symbol, limit,
                                                     start_time, end_time, k, 0)
                       IN  /\ after = Engine
                           /\ get_trade_history(after, symbol, limit,
                                                 start_time, end_time) = returned
        /\ LET after == SetReturnedCopy(Engine)
           IN  /\ after = Engine
               /\ get_filled_orders(after, symbol, limit)
                      = get_filled_orders(Engine, symbol, limit)
               /\ get_pnl(after, symbol, limit) = get_pnl(Engine, symbol, limit)
               /\ \A symbols \in CloseArgs :
                      get_positions(after, symbols) = get_positions(Engine, symbols)

\* C28: symbol isolation: a step changes the size, avg_price and
\* realized_pnl of a symbol's position only when it fills an order of that
\* symbol, so a fill on one symbol leaves every other symbol's position as
\* it is; and a step changes a symbol's mark_price and unrealized_pnl only
\* when it is a tick that delivers a snapshot of that symbol, and then to
\* the mid of that snapshot and to the PnL of its own position at that mid.
C28_SymbolIsolation ==
    [][\A symbol \in SymbolSet :
          LET pos == positions[symbol]
              ticked == current_indices' # current_indices
          IN  /\ (\A x \in NewExecutions : x.symbol # symbol) =>
                     /\ positions'[symbol].size = pos.size
                     /\ positions'[symbol].avg_price = pos.avg_price
                     /\ positions'[symbol].realized_pnl = pos.realized_pnl
              /\ IF ticked /\ symbol \in DOMAIN current_data'
                 THEN LET marked == update_mark_price(pos, Mid(current_data'[symbol]))
                      IN  /\ positions'[symbol].mark_price = marked.mark_price
                          /\ positions'[symbol].unrealized_pnl = marked.unrealized_pnl
                 ELSE /\ positions'[symbol].mark_price = pos.mark_price
                      /\ positions'[symbol].unrealized_pnl = pos.unrealized_pnl]_vars

\* an order of one symbol has filled in a later tick than an order of the
\* other symbol, whose position is open at the price of its own fill
C28_Witness ==
    /\ Len(execution_history) = 2
    /\ execution_history[1].symbol # execution_history[2].symbol
    /\ execution_history[1].exec_time < execution_history[2].exec_time
    /\ positions[execution_history[1].symbol].size # 0
    /\ positions[execution_history[1].symbol].avg_price = execution_history[1].price
    /\ positions[execution_history[2].symbol].avg_price = execution_history[2].price
    /\ execution_history[1].price # execution_history[2].price

\* C29: replays are reproducible: two engines in the same state (same
\* streams, same configuration, same operations so far), seeded identically,
\* answer the same place_order with the same response and queue the same
\* order: same order id, same sampled latency and execution time.
C29_ReplayReproducible ==
    \A symbol \in SymbolSet, o \in OrderInputs, seed \in Seeds :
        \A first \in Uuid4Values, second \in Uuid4Values :
            place_order_response(Engine, symbol, o.qty, o.price, o.type, seed, first)
                = place_order_response(Engine, symbol, o.qty, o.price, o.type, seed,
                                       second)

\* C30: in every state between operations every order in Pending has
\* execution_time strictly greater than current_time, also right after a
\* place_order whose sampled latency is 0.
C30_PendingStrictlyLater ==
    \A i \in 1..Len(pending_orders) :
        pending_orders[i].execution_time > current_time

\* C30, amended: in every state between operations every order in Pending
\* has execution_time >= current_time, and execution_time = current_time
\* only for an order submitted at the present current_time (its sampled
\* latency was 0); after every tick all orders left in Pending have
\* execution_time strictly greater than current_time.
C30_PendingNotEarlier ==
    /\ [](\A i \in 1..Len(pending_orders) :
             /\ pending_orders[i].execution_time >= current_time
             /\ pending_orders[i].execution_time = current_time =>
                    pending_orders[i].submission_time = current_time)
    /\ [][current_indices' # current_indices =>
             \A i \in 1..Len(pending_orders') :
                 pending_orders'[i].execution_time > current_time']_vars

\* after a tick that moved the clock an order was placed with latency 0: it
\* is in Pending and due at current_time
C30_Witness ==
    /\ last_placed # 0
    /\ \E symbol \in SymbolSet : current_indices[symbol] >= 2
    /\ \E i \in 1..Len(pending_orders) :
           /\ pending_orders[i].order_id = last_placed
           /\ pending_orders[i].execution_time = current_time

(***************************************************************************)
(* C31..C39: order pipeline, ticks, stream cursor.                          *)
(***************************************************************************)
\* C31: every order held by the pipeline or recorded in history has qty > 0
\* and a side that is Buy or Sell, after any place_order or close_positions
\* call that returns successfully, a place_order with qty = 0 included.
C31_OrdersWellFormed ==
    LET WellFormed(e) ==
            \A order \in AllOrders(e) :
                order.qty > 0 /\ order.side \in {"Buy", "Sell"}
    IN  /\ WellFormed(Engine)
        /\ \A symbol \in SymbolSet, qty \in AcceptedQtys, sample \in LatencySamples :
               \A o \in OrderInputs :
                   LET r == place_order(Engine, symbol, qty, o.price, o.type, sample)
                   IN  ~r.raised => WellFormed(r.eng)
        /\ \A symbols \in CloseArgs, sample \in LatencySamples :
               WellFormed(close_positions(Engine, symbols,
                                          [s \in SymbolSet |-> sample]).eng)

\* C32: latency is respected: every order has execution_time >=
\* submission_time; every execution record has exec_time >= the
\* execution_time of its order; and a fill is made by a tick that comes after
\* the place_order call: the step that creates an order fills nothing, and
\* every order a step fills was in the pipeline before that step, which is a
\* tick.
C32_LatencyRespected ==
    /\ [](/\ \A order \in AllOrders(Engine) :
                 order.execution_time >= order.submission_time
          /\ \A j \in 1..Len(execution_history) :
                 \A order \in AllOrders(Engine) :
                     order.order_id = execution_history[j].order_id =>
                         execution_history[j].exec_time >= order.execution_time)
    /\ [][(uuid_count' # uuid_count => NewExecutions = {})
           /\ (NewExecutions # {} =>
                  /\ current_indices' # current_indices
                  /\ \A x \in NewExecutions :
                         x.order_id \in PendingIds(Engine) \cup ActiveIds(Engine))]_vars

\* an order placed with a latency above 0 has filled, at or after the time
\* it was due
C32_Witness ==
    \E i \in 1..Len(order_history), j \in 1..Len(execution_history) :
        /\ order_history[i].order_id = execution_history[j].order_id
        /\ order_history[i].execution_time > order_history[i].submission_time
        /\ execution_history[j].exec_time >= order_history[i].execution_time

\* C33: promotion is complete at every tick: after every next(),
\* next(target) or wait that returns true, no order with execution_time <=
\* current_time is left in Pending; the orders that were due went to Active
\* behind the orders already there, in the order in which they were placed,
\* and are after the tick either in Active, in that order, or filled, the
\* fills logged in that order; the orders with execution_time > current_time
\* are still in Pending, in their order.
C33_PromotionComplete ==
    \A draws \in Draws :
      \A r \in TickCalls(Engine, draws) :
        r.ret =>
          LET Ready(o) == o.execution_time <= r.eng.current_time
              Waiting(o) == ~Ready(o)
              Filled(o) == o.order_id \in FilledIds(r.eng)
              Resting(o) == ~Filled(o)
              eligible == orders \o SelectSeq(pending_orders, Ready)
              fills == SubSeq(r.eng.order_history, Len(order_history) + 1,
                              Len(r.eng.order_history))
          IN  /\ \A i \in 1..Len(r.eng.pending_orders) : Waiting(r.eng.pending_orders[i])
              /\ r.eng.pending_orders = SelectSeq(pending_orders, Waiting)
              /\ r.eng.orders = SelectSeq(eligible, Resting)
              /\ Len(r.eng.order_history) >= Len(order_history)
              /\ IdsOf(fills) = IdsOf(SelectSeq(eligible, Filled))

\* a tick has promoted two orders, which rest in Active in the order in
\* which they were placed
C33_Witness ==
    /\ Len(orders) = 2
    /\ orders[1].order_id < orders[2].order_id
    /\ pending_orders = << >>
    /\ current_indices # [s \in SymbolSet |-> IF data_frames[s] = << >> THEN 0 ELSE 1]
    /\ last_placed = 0

\* C34: the order of effects inside a tick: current_time and the cache are
\* set and the position of every symbol of the tick is marked at the new mid
\* before any Pending order is promoted, and promotion is over before any
\* Active order is matched. After every tick the position of each symbol
\* with a snapshot in it has mark_price = (best bid + best ask) / 2 of the
\* cached snapshot, its unrealized_pnl is the one of that marking of the
\* position as it was before the tick's fills, the positions of the other
\* symbols keep their mark, a Market order due in the tick fills in it, and
\* every fill of the tick, whatever its symbol, is priced from the snapshot
\* of that symbol in the cache.
C34_TickOrderOfEffects ==
    \A draws \in Draws :
      \A r \in TickCalls(Engine, draws) :
        r.ret =>
          LET cache == r.eng.current_data
              fills == SubSeq(r.eng.execution_history, Len(execution_history) + 1,
                              Len(r.eng.execution_history))
          IN  /\ \A symbol \in DOMAIN cache : cache[symbol].ts >= r.eng.current_time
              /\ \E symbol \in DOMAIN cache : cache[symbol].ts = r.eng.current_time
              /\ \A symbol \in SymbolSet :
                     IF symbol \in DOMAIN cache
                     THEN /\ r.eng.positions[symbol].mark_price = Mid(cache[symbol])
                          /\ r.eng.positions[symbol].unrealized_pnl =
                                 update_mark_price(positions[symbol],
                                                   Mid(cache[symbol])).unrealized_pnl
                     ELSE r.eng.positions[symbol].mark_price = positions[symbol].mark_price
              /\ \A order \in ActiveAt(Engine, r.eng.current_time) :
                     (order.order_type = "Market" /\ order.symbol \in DOMAIN cache)
                         => order.order_id \in FilledIds(r.eng)
              /\ \A j \in 1..Len(fills) :
                     /\ fills[j].symbol \in DOMAIN cache
                     /\ fills[j].exec_time = r.eng.current_time
                     /\ \A order \in ActiveAt(Engine, r.eng.current_time) :
                            order.order_id = fills[j].order_id =>
                                fills[j].price = FillPrice(Engine, order, cache[order.symbol])

\* a tick that carried both symbols has filled an order and marked a
\* position that is still open
C34_Witness ==
    /\ DOMAIN current_data = SymbolSet
    /\ \E j \in 1..Len(execution_history) :
           /\ execution_history[j].exec_time = current_time
           /\ positions[execution_history[j].symbol].size # 0
           /\ positions[execution_history[j].symbol].mark_price
                  = Mid(current_data[execution_history[j].symbol])
    /\ pending_orders = << >>

\* C35: streams are consumed in order and never rewound: the index of every
\* symbol stays within 0..length of its stream, a cached snapshot of a
\* symbol is the row at its index, no next or wait call, whatever its
\* target, lowers an index, and the snapshot such a call caches for a symbol
\* is never older than the one cached before.
C35_StreamsNeverRewound ==
    /\ [](\A symbol \in SymbolSet :
             /\ current_indices[symbol] \in 0..Len(data_frames[symbol])
             /\ symbol \in DOMAIN current_data =>
                    /\ current_indices[symbol] > 0
                    /\ current_data[symbol] = data_frames[symbol][current_indices[symbol]])
    /\ [][\A symbol \in SymbolSet :
             /\ current_indices'[symbol] >= current_indices[symbol]
             /\ data_frames'[symbol] = data_frames[symbol]
             /\ \A k \in 1..current_indices[symbol] :
                    symbol \in DOMAIN current_data' =>
                        data_frames[symbol][k].ts <= current_data'[symbol].ts]_vars

\* a jump has skipped a row of a stream and a later call with an earlier
\* target has consumed the next row
C35_Witness ==
    \E symbol \in SymbolSet :
        /\ current_indices[symbol] = 3
        /\ symbol \in DOMAIN current_data
        /\ current_data[symbol].ts > data_frames[symbol][1].ts
        /\ current_time = current_data[symbol].ts

\* C36: order ownership is exclusive: in every reachable state an order id
\* is in at most one of Pending, Active and the filled-orders history, and
\* at most once in it; an order comes into the filled history only in a
\* tick in which it is Active (it was Active before, or was Pending and due),
\* it is out of Active and Pending when that tick is over, and the tick adds
\* exactly one execution record for it; every filled order has exactly one
\* execution record, so no order fills twice.
C36_ExclusiveOwnership ==
    /\ [](/\ PendingIds(Engine) \cap ActiveIds(Engine) = {}
          /\ PendingIds(Engine) \cap FilledIds(Engine) = {}
          /\ ActiveIds(Engine) \cap FilledIds(Engine) = {}
          /\ Cardinality(PendingIds(Engine)) = Len(pending_orders)
          /\ Cardinality(ActiveIds(Engine)) = Len(orders)
          /\ Cardinality(FilledIds(Engine)) = Len(order_history)
          /\ Len(execution_history) = Len(order_history)
          /\ \A id \in FilledIds(Engine) :
                 Cardinality({ j \in 1..Len(execution_history) :
                                   execution_history[j].order_id = id }) = 1)
    /\ [][/\ IsPrefix(order_history, order_history')
          /\ \A k \in (Len(order_history) + 1)..Len(order_history') :
                 LET id == order_history'[k].order_id
                 IN  /\ current_indices' # current_indices
                     /\ \E order \in ActiveAt(Engine, current_time') : order.order_id = id
                     /\ \A i \in 1..Len(orders') : orders'[i].order_id # id
                     /\ \A i \in 1..Len(pending_orders') : pending_orders'[i].order_id # id
                     /\ Cardinality({ x \in NewExecutions : x.order_id = id }) = 1]_vars

\* a Limit order has filled in a tick later than the one it was due in, with
\* nothing left in the pipeline
C36_Witness ==
    \E i \in 1..Len(order_history) :
        /\ order_history[i].order_type = "Limit"
        /\ order_history[i].execution_time < current_time
        /\ \E j \in 1..Len(execution_history) :
               /\ execution_history[j].order_id = order_history[i].order_id
               /\ execution_history[j].exec_time = current_time
        /\ orders = << >>
        /\ pending_orders = << >>

\* C37: cancel_all_orders(S) returns 0, also when S has no Active order,
\* and takes out of Active exactly the orders whose symbol is S; the Active
\* orders of other symbols keep their order, and Pending (orders for S
\* included), positions, wallet, histories, cursor and current_time are as
\* before. A Pending order for S is promoted by the next tick at or after
\* its execution_time as if nothing had been cancelled, and a Market order
\* among them fills in that tick when it carries a snapshot of S.
C37_CancelAllOrders ==
    \A symbol \in SymbolSet :
        LET r == cancel_all_orders(Engine, symbol)
            Other(o) == o.symbol # symbol
        IN  /\ r.ret = 0
            /\ r.eng = [Engine EXCEPT !.orders = SelectSeq(orders, Other)]
            /\ \A draws \in DrawsOf(r.eng) :
                   LET t == single_step(r.eng, draws)
                   IN  t.ret =>
                         \A i \in 1..Len(pending_orders) :
                           LET order == pending_orders[i]
                           IN  (order.symbol = symbol
                                  /\ order.execution_time <= t.eng.current_time) =>
                                 /\ order.order_id \in ActiveIds(t.eng) \cup FilledIds(t.eng)
                                 /\ (order.order_type = "Market"
                                        /\ symbol \in DOMAIN t.eng.current_data)
                                      => order.order_id \in FilledIds(t.eng)

\* cancel_all_orders has dropped an Active order, and an order placed after
\* the dropped one is still Pending or Active
C37_Witness ==
    /\ DroppedIds(Engine) # {}
    /\ last_placed = 0
    /\ \E order \in AllOrders(Engine) :
           /\ order.status = "New"
           /\ \E id \in DroppedIds(Engine) : id < order.order_id

\* C38: a failed jump changes nothing: next(target), wait_seconds and
\* wait_minutes return false exactly when no symbol has a remaining snapshot
\* with ts >= target, and then the engine is as before, field by field (and
\* so it is after a wait with such a target); a single-step next() that
\* follows consumes the next remaining snapshot of every symbol that has one,
\* all of them before the target.
C38_FailedJumpChangesNothing ==
    \A draws \in Draws :
      /\ \A c \in JumpCalls(Engine, draws) :
           LET Reaches(symbol) ==
                   \E k \in (current_indices[symbol] + 1)..Len(data_frames[symbol]) :
                       data_frames[symbol][k].ts >= c.target_time
               t == single_step(c.res.eng, draws)
           IN  /\ c.res.ret <=> \E symbol \in SymbolSet : Reaches(symbol)
               /\ ~c.res.ret =>
                     /\ c.res.eng = Engine
                     /\ t.ret <=> \E symbol \in SymbolSet : HasNext(Engine, symbol)
                     /\ \A symbol \in SymbolSet :
                            HasNext(Engine, symbol) =>
                              /\ t.eng.current_indices[symbol] = current_indices[symbol] + 1
                              /\ t.eng.current_data[symbol] = NextRow(Engine, symbol)
                              /\ NextRow(Engine, symbol).ts < c.target_time
      /\ \A timeout \in WaitInputs :
           ~wait_seconds(Engine, timeout, draws).ret => wait(Engine, timeout, draws) = Engine

\* after a call other than place_order an order is still Pending, snapshots
\* remain, and none of them reaches the latest target: a jump to it fails
C38_Witness ==
    /\ last_placed = 0
    /\ pending_orders # << >>
    /\ \E symbol \in SymbolSet : HasNext(Engine, symbol)
    /\ \A draws \in Draws : ~jump_to_time(Engine, MaxTs + 1, draws).ret

\* C39: close_positions flattens: when symbol S has a position of size other
\* than 0 and no order for S is Pending or Active, then after
\* close_positions([S]) the position is untouched until the first tick at
\* or after the closing order's execution_time that carries a snapshot of
\* S, and that tick leaves the size of S at exactly 0, adds
\* size * (fill_price - avg_price) - fee to realized_pnl and adds exactly one
\* execution record for S, the closing order's, for |size| at the
\* slippage-adjusted best opposite price of that snapshot.
C39_ClosePositionsFlattens ==
    \A symbol \in SymbolSet :
      (/\ positions[symbol].size # 0
       /\ \A other \in AllOrders(Engine) :
              other.symbol = symbol => other.status = "Filled") =>
      \A sample \in LatencySamples, draws \in Draws :
        LET pos == positions[symbol]
            closed == close_positions(Engine, << symbol >>, (symbol :> sample)).eng
            order == closed.pending_orders[Len(closed.pending_orders)]
            f == FirstTickFor(closed, symbol, order.execution_time, MaxLen + 1, draws)
            fills == SelectSeq(SubSeq(f.eng.execution_history,
                                      Len(f.prior.execution_history) + 1,
                                      Len(f.eng.execution_history)),
                               LAMBDA x : x.symbol = symbol)
        IN  /\ f.prior.positions[symbol].size = pos.size
            /\ f.prior.positions[symbol].realized_pnl = pos.realized_pnl
            /\ f.found =>
                  /\ f.eng.positions[symbol].size = 0
                  /\ Len(fills) = 1
                  /\ fills[1].order_id = order.order_id
                  /\ fills[1].qty = Abs(pos.size)
                  /\ fills[1].price = FillPrice(Engine, order, f.eng.current_data[symbol])
                  /\ f.eng.positions[symbol].realized_pnl =
                         RAdd(pos.realized_pnl,
                              RSub(RMul(RInt(pos.size), RSub(fills[1].price, pos.avg_price)),
                                   fills[1].exec_fee))
                  /\ order.order_id \in FilledIds(f.eng)
                  /\ Flat(f.eng, symbol)

\* a position of two lots has been closed by one fill of two lots
C39_Witness ==
    \E j \in 1..Len(execution_history) :
        /\ execution_history[j].qty >= 2
        /\ positions[execution_history[j].symbol].size = 0
        /\ positions[execution_history[j].symbol].realized_pnl # Zero
        /\ Flat(Engine, execution_history[j].symbol)

====
